---- MODULE Spec2Model ----
(***************************************************************************)
(* A model of keel:                                                        *)
(*   - internal/cache/ast.go      the LRU AST cache (ASTCache)             *)
(*   - internal/parallel          the file worker pool (Processor.Process) *)
(*   - internal/analyzer          rule selection, execution and sorting    *)
(*   - internal/rules             the rule registries                      *)
(*   - internal/optimizer, transforms   Optimize and the AST transforms    *)
(*   - internal/rules             PERF004 (consecutive RUN instructions)   *)
(*   - internal/lexer             the Dockerfile lexer                     *)
(*   - internal/parser            the instructions of a stage, ONBUILD     *)
(* Each part has its own variables, initial condition and next-state       *)
(* relation; a specification of one part leaves the others untouched.      *)
(***************************************************************************)
EXTENDS Integers, Sequences, FiniteSets, Bags, TLC

(***************************************************************************)
(* Bounds of the model.                                                    *)
(***************************************************************************)
NumKeys == 2
NumContents == 2
MaxElems == 3
MaxCap == 2
MaxTime == 2
MaxOps == 5
MaxLinOps == 3

MinSecond(a, b) == b
Min(a, b) == IF a <= b THEN a ELSE b

(***************************************************************************)
(* PART 1: the AST cache, internal/cache/ast.go                            *)
(***************************************************************************)
VARIABLES
    cache,      \* c.cache: filename -> *list.Element (Nil when the key is absent)
    lru,        \* c.lru: the container/list, as prev/next/list pointers and len
    ent,        \* per element, its *entry: key and the ASTEntry it points to
    nextElem,   \* the next element PushFront allocates
    maxEntries, \* c.maxEntries
    now,        \* the clock read by time.Now and time.Since
    cpc,        \* per goroutine, its position in Get
    cl,         \* per goroutine, the locals of the Get in progress, and when it was called
    cstatus,    \* "ok", or how a Put ended the program: "panic" or "hang"
    ops,        \* the number of cache calls made so far
    recording,  \* whether the calls are recorded in hist
    hist,       \* the recorded calls: arguments, result, invocation and response stamps
    clock       \* the stamp of the next recorded invocation or response

cacheVars == <<cache, lru, ent, nextElem, maxEntries, now, cpc, cl, cstatus,
               ops, recording, hist, clock>>

Procs == 1..2
Keys == 1..NumKeys
Contents == 1..NumContents
Elems == 1..MaxElems

\* the list's sentinel element l.root, and the nil pointer
Root == 0
Nil == -1
Nodes == {Root} \cup Elems

\* maxAge, in ticks of the clock
MaxAge == 1

\* hashContent: SHA-256 of the content, hex encoded. Distinct contents of the model
\* have distinct hashes.
hashContent(content) == <<"sha256", content>>

NoEntry == [key |-> 0, hash |-> <<"sha256", 0>>, last |-> 0]

\* ---- container/list, as ast.go uses it --------------------------------

\* list.New / (*List).Init: root.next = root.prev = &root, len = 0. The elements
\* that were in the list keep their own prev, next and list fields.
ListInit(L) ==
    [L EXCEPT !.next[Root] = Root, !.prev[Root] = Root, !.len = 0]

\* (*List).Len
ListLen(L) == L.len

\* (*List).Back: nil for len = 0, root.prev otherwise
ListBack(L) == IF L.len = 0 THEN Nil ELSE L.prev[Root]

\* (*List).PushFront(v): insert(e, &root)
ListPushFront(L, e) ==
    LET at == Root
        p1 == [L.prev EXCEPT ![e] = at]
        n1 == [L.next EXCEPT ![e] = L.next[at]]
        n2 == [n1 EXCEPT ![p1[e]] = e]
        p2 == [p1 EXCEPT ![n2[e]] = e]
    IN  [prev |-> p2, next |-> n2, inl |-> [L.inl EXCEPT ![e] = TRUE], len |-> L.len + 1]

\* (*List).Remove(e): only if e.list == l; unlinks e through e's own pointers
ListRemove(L, e) ==
    IF ~L.inl[e] THEN L
    ELSE LET n1 == [L.next EXCEPT ![L.prev[e]] = L.next[e]]
             p1 == [L.prev EXCEPT ![n1[e]] = L.prev[e]]
         IN  [prev |-> [p1 EXCEPT ![e] = Nil], next |-> [n1 EXCEPT ![e] = Nil],
              inl |-> [L.inl EXCEPT ![e] = FALSE], len |-> L.len - 1]

\* (*List).MoveToFront(e): nothing if e.list != l or e is already first
ListMoveToFront(L, e) ==
    IF ~L.inl[e] \/ L.next[Root] = e THEN L
    ELSE LET at == Root
             n1 == [L.next EXCEPT ![L.prev[e]] = L.next[e]]
             p1 == [L.prev EXCEPT ![n1[e]] = L.prev[e]]
             p2 == [p1 EXCEPT ![e] = at]
             n2 == [n1 EXCEPT ![e] = n1[at]]
             n3 == [n2 EXCEPT ![p2[e]] = e]
             p3 == [p2 EXCEPT ![n3[e]] = e]
         IN  [L EXCEPT !.prev = p3, !.next = n3]

\* ---- the cache's helpers ----------------------------------------------

\* removeElement: c.lru.Remove(elem); delete(c.cache, ent.key)
removeElement(C, elem) ==
    [C EXCEPT !.lru = ListRemove(C.lru, elem),
              !.cache = [C.cache EXCEPT ![ent[elem].key] = Nil]]

\* The eviction loop of Put: for c.lru.Len() > c.maxEntries { c.removeOldest() }.
\* removeOldest on the sentinel panics in the type assertion of removeElement;
\* on an element whose list field is nil it removes nothing from the list, and the
\* loop never ends.
RECURSIVE evictLoop(_)
evictLoop(C) ==
    IF ListLen(C.lru) <= maxEntries THEN C
    ELSE LET elem == ListBack(C.lru)
         IN  IF elem = Root THEN [C EXCEPT !.status = "panic"]
             ELSE IF ~C.lru.inl[elem]
                  THEN [removeElement(C, elem) EXCEPT !.status = "hang"]
                  ELSE evictLoop(removeElement(C, elem))

\* Size: len(c.cache)
Size == Cardinality({k \in Keys : cache[k] # Nil})

\* ---- recording --------------------------------------------------------

Invoke(p, op, file, content) ==
    IF recording
    THEN /\ hist' = Append(hist, [proc |-> p, op |-> op, file |-> file,
                                  content |-> content, inv |-> clock, res |-> 0,
                                  hit |-> FALSE, hash |-> <<"sha256", 0>>])
         /\ clock' = clock + 1
    ELSE UNCHANGED <<hist, clock>>

\* the open recorded call of goroutine p
OpenCall(p) == CHOOSE i \in 1..Len(hist) : hist[i].proc = p /\ hist[i].res = 0

Respond(p, hit, hash) ==
    IF recording
    THEN /\ hist' = [hist EXCEPT ![OpenCall(p)].res = clock,
                                 ![OpenCall(p)].hit = hit,
                                 ![OpenCall(p)].hash = hash]
         /\ clock' = clock + 1
    ELSE UNCHANGED <<hist, clock>>

\* a call that is invoked and responds in one step
Atomic(p, op, file, content) ==
    IF recording
    THEN /\ hist' = Append(hist, [proc |-> p, op |-> op, file |-> file,
                                  content |-> content, inv |-> clock, res |-> clock + 1,
                                  hit |-> FALSE, hash |-> <<"sha256", 0>>])
         /\ clock' = clock + 2
    ELSE UNCHANGED <<hist, clock>>

\* a goroutine makes its next call when the previous one has returned; a run makes
\* MaxOps calls, a recorded run MaxLinOps
CanCall(p) ==
    /\ cpc[p] = "idle"
    /\ cstatus = "ok"
    /\ ops < (IF recording THEN MaxLinOps ELSE MaxOps)

Running(p) == cstatus = "ok"

NoLocals == [file |-> 0, content |-> 0, elem |-> Nil, t0 |-> 0]

\* ---- Get ----------------------------------------------------------------

\* Get, lines 73-81: the lookup under the read lock
GetLookup(p, file, content) ==
    /\ CanCall(p)
    /\ ops' = ops + 1
    /\ IF cache[file] = Nil
       THEN /\ UNCHANGED <<cpc, cl>>
            /\ Atomic(p, "get", file, content)
       ELSE /\ cpc' = [cpc EXCEPT ![p] = "hash"]
            /\ cl' = [cl EXCEPT ![p] = [file |-> file, content |-> content,
                                        elem |-> cache[file], t0 |-> now]]
            /\ Invoke(p, "get", file, content)
    /\ UNCHANGED <<cache, lru, ent, nextElem, maxEntries, now, cstatus, recording>>

\* Get, line 86: ent.value.Hash != hash, read with no lock held
GetCheckHash(p) ==
    /\ cpc[p] = "hash" /\ Running(p)
    /\ cpc' = [cpc EXCEPT ![p] =
                 IF ent[cl[p].elem].hash # hashContent(cl[p].content)
                 THEN "rmStale" ELSE "age"]
    /\ UNCHANGED <<cache, lru, ent, nextElem, maxEntries, now, cl, cstatus,
                   ops, recording, hist, clock>>

\* Get, line 95: time.Since(ent.value.LastAccessed) > c.maxAge, read with no lock held
GetCheckAge(p) ==
    /\ cpc[p] = "age" /\ Running(p)
    /\ cpc' = [cpc EXCEPT ![p] =
                 IF now - ent[cl[p].elem].last > MaxAge THEN "rmExpired" ELSE "touch"]
    /\ UNCHANGED <<cache, lru, ent, nextElem, maxEntries, now, cl, cstatus,
                   ops, recording, hist, clock>>

\* Get, lines 88-91 and 96-99: remove the element under the write lock, return a miss
GetRemove(p) ==
    /\ cpc[p] \in {"rmStale", "rmExpired"} /\ Running(p)
    /\ LET C == removeElement([cache |-> cache, lru |-> lru, status |-> cstatus],
                              cl[p].elem)
       IN  /\ cache' = C.cache
           /\ lru' = C.lru
    /\ cpc' = [cpc EXCEPT ![p] = "idle"]
    /\ cl' = [cl EXCEPT ![p] = NoLocals]
    /\ Respond(p, FALSE, <<"sha256", 0>>)
    /\ UNCHANGED <<ent, nextElem, maxEntries, now, cstatus, ops, recording>>

\* Get, lines 103-106: MoveToFront and refresh LastAccessed under the write lock
GetTouch(p) ==
    /\ cpc[p] = "touch" /\ Running(p)
    /\ lru' = ListMoveToFront(lru, cl[p].elem)
    /\ ent' = [ent EXCEPT ![cl[p].elem].last = now]
    /\ cpc' = [cpc EXCEPT ![p] = "ret"]
    /\ UNCHANGED <<cache, nextElem, maxEntries, now, cl, cstatus,
                   ops, recording, hist, clock>>

\* Get, line 108: return ent.value, true; ent.value is read after the unlock
GetReturn(p) ==
    /\ cpc[p] = "ret" /\ Running(p)
    /\ cpc' = [cpc EXCEPT ![p] = "idle"]
    /\ cl' = [cl EXCEPT ![p] = NoLocals]
    /\ Respond(p, TRUE, ent[cl[p].elem].hash)
    /\ UNCHANGED <<cache, lru, ent, nextElem, maxEntries, now, cstatus, ops, recording>>

\* ---- Put, Invalidate, Clear: each runs under the write lock -----------

\* Put, lines 119-129: the filename is cached; move its element to the front and
\* point its entry to a new ASTEntry
PutExisting(p, file, content) ==
    /\ CanCall(p)
    /\ cache[file] # Nil
    /\ ops' = ops + 1
    /\ lru' = ListMoveToFront(lru, cache[file])
    /\ ent' = [ent EXCEPT ![cache[file]].hash = hashContent(content),
                          ![cache[file]].last = now]
    /\ Atomic(p, "put", file, content)
    /\ UNCHANGED <<cache, nextElem, maxEntries, now, cpc, cl, cstatus, recording>>

\* Put, lines 131-147: a new element at the front, then the eviction loop
PutNew(p, file, content) ==
    /\ CanCall(p)
    /\ cache[file] = Nil
    /\ nextElem <= MaxElems
    /\ ops' = ops + 1
    /\ ent' = [ent EXCEPT ![nextElem] =
                 [key |-> file, hash |-> hashContent(content), last |-> now]]
    /\ nextElem' = nextElem + 1
    /\ LET C0 == [cache |-> [cache EXCEPT ![file] = nextElem],
                  lru |-> ListPushFront(lru, nextElem),
                  status |-> "ok"]
           \* evictLoop reads the keys of elements older than the new one
           C == evictLoop(C0)
       IN  /\ cache' = C.cache
           /\ lru' = C.lru
           /\ cstatus' = C.status
    /\ Atomic(p, "put", file, content)
    /\ UNCHANGED <<maxEntries, now, cpc, cl, recording>>

\* Invalidate, lines 151-158
Invalidate(p, file) ==
    /\ CanCall(p)
    /\ ops' = ops + 1
    /\ IF cache[file] # Nil
       THEN LET C == removeElement([cache |-> cache, lru |-> lru, status |-> cstatus],
                                   cache[file])
            IN  cache' = C.cache /\ lru' = C.lru
       ELSE UNCHANGED <<cache, lru>>
    /\ Atomic(p, "invalidate", file, 0)
    /\ UNCHANGED <<ent, nextElem, maxEntries, now, cpc, cl, cstatus, recording>>

\* Clear, lines 161-167: a fresh map, and lru.Init()
Clear(p) ==
    /\ CanCall(p)
    /\ ops' = ops + 1
    /\ cache' = [k \in Keys |-> Nil]
    /\ lru' = ListInit(lru)
    /\ Atomic(p, "clear", 0, 0)
    /\ UNCHANGED <<ent, nextElem, maxEntries, now, cpc, cl, cstatus, recording>>

\* time passes
Tick ==
    /\ now < MaxTime
    /\ cstatus = "ok"
    /\ now' = now + 1
    /\ UNCHANGED <<cache, lru, ent, nextElem, maxEntries, cpc, cl, cstatus,
                   ops, recording, hist, clock>>

\* NewASTCache with WithMaxEntries(n), n > 0: an empty map and an empty list
CacheInitWith(rec) ==
    /\ cache = [k \in Keys |-> Nil]
    /\ lru = [prev |-> [n \in Nodes |-> IF n = Root THEN Root ELSE Nil],
              next |-> [n \in Nodes |-> IF n = Root THEN Root ELSE Nil],
              inl |-> [n \in Nodes |-> FALSE],
              len |-> 0]
    /\ ent = [e \in Elems |-> NoEntry]
    /\ nextElem = 1
    /\ maxEntries \in 1..MaxCap
    /\ now = 0
    /\ cpc = [p \in Procs |-> "idle"]
    /\ cl = [p \in Procs |-> NoLocals]
    /\ cstatus = "ok"
    /\ ops = 0
    /\ recording = rec
    /\ hist = <<>>
    /\ clock = 1


(***************************************************************************)
(* PART 2: the file worker pool, Processor.Process of internal/parallel    *)
(***************************************************************************)
VARIABLES
    files,         \* the files argument of Process
    workers,       \* p.workers
    ppc,           \* the position of the goroutine that called Process
    jobs,          \* the jobs channel: its buffer (the channel is closed once filled)
    resultsChan,   \* the results channel: its buffer
    resultsClosed, \* whether resultsChan is closed
    wpc,           \* per worker goroutine, its position
    wjob,          \* per worker goroutine, the job it received
    results,       \* the results slice of Process
    cancelled,     \* whether ctx is done
    started,       \* the indices of the files for which fn was called
    fnOut,         \* per index, what the call of fn for that file returned
    atCancel,      \* the indices whose fn call was in progress when ctx was cancelled
    sendOrder      \* the indices in the order their results were sent

procVars == <<files, workers, ppc, jobs, resultsChan, resultsClosed, wpc, wjob,
              results, cancelled, started, fnOut, atCancel, sendOrder>>

MaxFiles == 3
MaxWorkers == 2

FileNames == {"a", "b"}
Workers == 1..MaxWorkers

\* files of every length up to MaxFiles, the empty list included
FileLists == UNION {[1..n -> FileNames] : n \in 0..MaxFiles}

\* the zero FileResult, and a job before any is received
ZeroResult == [Filename |-> "", Result |-> <<"nil">>, Error |-> <<"nil">>]
NoJob == [index |-> 0, filename |-> ""]
NoOut == [Result |-> <<"nil">>, Error |-> <<"nil">>]

\* ctx.Err() once ctx is done
CtxErr == <<"context canceled">>

\* what fn may return for a file: a result, or an error of its own, or, when it sees
\* ctx done, the context's error
FnOutcomes(filename) ==
    {[Result |-> <<"ok", filename>>, Error |-> <<"nil">>],
     [Result |-> <<"nil">>, Error |-> <<"failed", filename>>]}
    \cup (IF cancelled THEN {[Result |-> <<"nil">>, Error |-> CtxErr]} ELSE {})

\* the case <-ctx.Done() of the select, line 238: ready once ctx is done
CtxDoneNever == FALSE
CtxDone == cancelled

\* results[r.index] = r.result, line 276
PlaceInArrivalOrder(res, r) ==
    [res EXCEPT ![CHOOSE i \in 1..Len(res) :
                     res[i] = ZeroResult /\ \A j \in 1..(i - 1) : res[j] # ZeroResult]
                 = r.result]
Place(res, r) == [res EXCEPT ![r.index] = r.result]

\* Process, lines 204-265: nil for no files; else the jobs channel filled and closed,
\* min(p.workers, len(files)) workers started. (Indices are 1-based here.)
ProcessCall ==
    /\ ppc = "call"
    /\ IF Len(files) = 0
       THEN /\ ppc' = "returned"
            /\ UNCHANGED <<jobs, wpc, results>>
       ELSE /\ ppc' = "collect"
            /\ jobs' = [i \in 1..Len(files) |-> [index |-> i, filename |-> files[i]]]
            /\ wpc' = [w \in Workers |->
                         IF w <= Min(workers, Len(files)) THEN "recv" ELSE "off"]
            /\ results' = [i \in 1..Len(files) |-> ZeroResult]
    /\ UNCHANGED <<files, workers, resultsChan, resultsClosed, wjob, cancelled,
                   started, fnOut, atCancel, sendOrder>>

\* the range loop were the jobs channel never closed: it blocks on the empty channel
WorkerRecvNotClosed(w) ==
    /\ wpc[w] = "recv"
    /\ jobs # <<>>
    /\ wjob' = [wjob EXCEPT ![w] = Head(jobs)]
    /\ jobs' = Tail(jobs)
    /\ wpc' = [wpc EXCEPT ![w] = "select"]
    /\ UNCHANGED <<files, workers, ppc, resultsChan, resultsClosed, results, cancelled,
                   started, fnOut, atCancel, sendOrder>>

\* for j := range jobs, line 236: the next job, or the end of the closed channel
WorkerRecv(w) ==
    /\ wpc[w] = "recv"
    /\ IF jobs # <<>>
       THEN /\ wjob' = [wjob EXCEPT ![w] = Head(jobs)]
            /\ jobs' = Tail(jobs)
            /\ wpc' = [wpc EXCEPT ![w] = "select"]
       ELSE /\ wpc' = [wpc EXCEPT ![w] = "exited"]
            /\ UNCHANGED <<wjob, jobs>>
    /\ UNCHANGED <<files, workers, ppc, resultsChan, resultsClosed, results, cancelled,
                   started, fnOut, atCancel, sendOrder>>

\* select, case <-ctx.Done(), lines 238-248: the job gets ctx.Err() as its result
WorkerCancelled(w) ==
    /\ wpc[w] = "select"
    /\ CtxDone
    /\ resultsChan' = Append(resultsChan,
          [index |-> wjob[w].index,
           result |-> [Filename |-> wjob[w].filename, Result |-> <<"nil">>,
                       Error |-> CtxErr]])
    /\ sendOrder' = Append(sendOrder, wjob[w].index)
    /\ wpc' = [wpc EXCEPT ![w] = "recv"]
    /\ UNCHANGED <<files, workers, ppc, jobs, resultsClosed, wjob, results, cancelled,
                   started, fnOut, atCancel>>

\* select, default, line 250: fn is called for the job's file
WorkerDispatch(w) ==
    /\ wpc[w] = "select"
    /\ ~CtxDone
    /\ wpc' = [wpc EXCEPT ![w] = "run"]
    /\ started' = started \cup {wjob[w].index}
    /\ UNCHANGED <<files, workers, ppc, jobs, resultsChan, resultsClosed, wjob, results,
                   cancelled, fnOut, atCancel, sendOrder>>

\* lines 250-261: fn returns, and its result is sent
WorkerFnReturn(w) ==
    /\ wpc[w] = "run"
    /\ \E out \in FnOutcomes(wjob[w].filename) :
          /\ resultsChan' = Append(resultsChan,
                [index |-> wjob[w].index,
                 result |-> [Filename |-> wjob[w].filename, Result |-> out.Result,
                             Error |-> out.Error]])
          /\ fnOut' = [fnOut EXCEPT ![wjob[w].index] = out]
    /\ sendOrder' = Append(sendOrder, wjob[w].index)
    /\ wpc' = [wpc EXCEPT ![w] = "recv"]
    /\ UNCHANGED <<files, workers, ppc, jobs, resultsClosed, wjob, results, cancelled,
                   started, atCancel>>

\* lines 268-271: wg.Wait(), then close(resultsChan)
CloseResults ==
    /\ ppc = "collect"
    /\ ~resultsClosed
    /\ \A w \in Workers : wpc[w] \in {"off", "exited"}
    /\ resultsClosed' = TRUE
    /\ UNCHANGED <<files, workers, ppc, jobs, resultsChan, wpc, wjob, results, cancelled,
                   started, fnOut, atCancel, sendOrder>>

\* lines 275-277: for r := range resultsChan { results[r.index] = r.result }
Collect ==
    /\ ppc = "collect"
    /\ resultsChan # <<>>
    /\ results' = Place(results, Head(resultsChan))
    /\ resultsChan' = Tail(resultsChan)
    /\ UNCHANGED <<files, workers, ppc, jobs, resultsClosed, wpc, wjob, cancelled,
                   started, fnOut, atCancel, sendOrder>>

\* line 279: the range loop ends on the closed, drained channel
ProcessReturn ==
    /\ ppc = "collect"
    /\ resultsChan = <<>>
    /\ resultsClosed
    /\ ppc' = "returned"
    /\ UNCHANGED <<files, workers, jobs, resultsChan, resultsClosed, wpc, wjob, results,
                   cancelled, started, fnOut, atCancel, sendOrder>>

\* the caller cancels ctx, or its deadline passes: at any time, also before the call
Cancel ==
    /\ ~cancelled
    /\ ppc # "off"
    /\ cancelled' = TRUE
    /\ atCancel' = {wjob[w].index : w \in {v \in Workers : wpc[v] = "run"}}
    /\ UNCHANGED <<files, workers, ppc, jobs, resultsChan, resultsClosed, wpc, wjob,
                   results, started, fnOut, sendOrder>>

\* a Processor from New(WithWorkers(n)), n > 0, and a call of Process about to be made
ProcInit ==
    /\ files \in FileLists
    /\ workers \in 1..MaxWorkers
    /\ ppc = "call"
    /\ jobs = <<>>
    /\ resultsChan = <<>>
    /\ resultsClosed = FALSE
    /\ wpc = [w \in Workers |-> "off"]
    /\ wjob = [w \in Workers |-> NoJob]
    /\ results = <<>>
    /\ cancelled = FALSE
    /\ started = {}
    /\ fnOut = [i \in 1..MaxFiles |-> NoOut]
    /\ atCancel = {}
    /\ sendOrder = <<>>

\* no Process call
ProcIdle ==
    /\ files = <<>>
    /\ workers = 1
    /\ ppc = "off"
    /\ jobs = <<>>
    /\ resultsChan = <<>>
    /\ resultsClosed = FALSE
    /\ wpc = [w \in Workers |-> "off"]
    /\ wjob = [w \in Workers |-> NoJob]
    /\ results = <<>>
    /\ cancelled = FALSE
    /\ started = {}
    /\ fnOut = [i \in 1..MaxFiles |-> NoOut]
    /\ atCancel = {}
    /\ sendOrder = <<>>


(***************************************************************************)
(* PART 3: the analyzer, internal/analyzer/analyzer.go                     *)
(***************************************************************************)
VARIABLES
    df,            \* the Dockerfile that is analysed
    aRules,        \* a.rules, as rule ids
    enabled,       \* a.enabled: the ids set to true
    disabled,      \* a.disabled: the ids set to true
    minSeverity,   \* a.minSeverity
    parallelRules, \* a.parallelRules
    maxWorkers,    \* a.maxWorkers
    apc,           \* the position of the goroutine that called Analyze
    rulesToRun,    \* rulesToRun of Analyze
    ruleChan,      \* the buffer of ruleChan (the channel is closed once filled)
    awpc,          \* per worker goroutine of analyzeParallel, its position
    awrule,        \* per worker goroutine, the rule it received
    diagnostics,   \* the diagnostics slice the rules' output is collected in
    checked,       \* the rules whose Check was called, in the order of the calls
    result         \* Result.Diagnostics

anVars == <<df, aRules, enabled, disabled, minSeverity, parallelRules, maxWorkers, apc,
            rulesToRun, ruleChan, awpc, awrule, diagnostics, checked, result>>

NumDockerfiles == 2
MaxRuleWorkers == 2

SeverityHint == 0
SeverityInfo == 1
SeverityWarning == 2
SeverityError == 3

RuleIds == {"R1", "R2", "R3"}
RuleWorkers == 1..MaxRuleWorkers

\* the lists of rules an Analyzer is configured with (WithRules)
RuleLists == {<<"R1", "R2", "R3">>, <<"R3", "R1">>, <<"R2", "R3">>, <<"R1">>}

\* a Diagnostic: its rule, start position and severity; Message tells the
\* diagnostics of one rule apart
Diag(rule, line, column, severity, message) ==
    [Rule |-> rule, Line |-> line, Column |-> column, Severity |-> severity,
     Message |-> message]

\* rule.Check(df, ctx): what each rule reports on each Dockerfile, in the order in
\* which the rule emits it. Rules are side-effect free: the same output every call.
Check(rule, d) ==
    IF d = 1
    THEN CASE rule = "R1" -> <<Diag("R1", 2, 1, SeverityWarning, 1),
                               Diag("R1", 2, 1, SeverityWarning, 2)>>
           [] rule = "R2" -> <<Diag("R2", 1, 1, SeverityError, 1),
                               Diag("R2", 3, 1, SeverityInfo, 2)>>
           [] OTHER -> <<Diag("R3", 2, 1, SeverityWarning, 1)>>
    ELSE CASE rule = "R1" -> <<>>
           [] rule = "R2" -> <<Diag("R2", 1, 2, SeverityInfo, 1),
                               Diag("R2", 1, 1, SeverityWarning, 2)>>
           [] OTHER -> <<Diag("R3", 1, 1, SeverityError, 1),
                         Diag("R3", 1, 1, SeverityInfo, 2),
                         Diag("R3", 1, 1, SeverityError, 3)>>

\* shouldRun, lines 244-256
shouldRunEnabledFirst(rule) ==
    IF enabled # {} THEN rule \in enabled
    ELSE rule \notin disabled
shouldRun(rule) ==
    IF rule \in disabled THEN FALSE
    ELSE IF enabled # {} THEN rule \in enabled
    ELSE TRUE

\* Analyze, lines 114-119
FilterRules(rules) == SelectSeq(rules, shouldRun)

\* the severity filter of analyzeSequential (lines 166-170) and of analyzeParallel
\* (lines 223-228)
FilterSeverity(diags) == SelectSeq(diags, LAMBDA d : d.Severity >= minSeverity)

\* analyzeSequential, lines 152-173: the rules in order, each one's output filtered
\* and appended
RECURSIVE analyzeSequential(_)
analyzeSequential(rules) ==
    IF rules = <<>> THEN <<>>
    ELSE FilterSeverity(Check(Head(rules), df)) \o analyzeSequential(Tail(rules))

\* analyzeParallel, lines 230-234: a worker appends its filtered output under mu
CollectLast(diags, filtered) == IF Len(filtered) > 0 THEN filtered ELSE diags
Collected(diags, filtered) == IF Len(filtered) > 0 THEN diags \o filtered ELSE diags

\* the less function of the sort, lines 130-135
Less(a, b) ==
    IF a.Line # b.Line THEN a.Line < b.Line ELSE a.Column < b.Column

\* sort.Slice, line 130: the slice reordered so that no element is less than one
\* before it. The sort is not stable: elements of which neither is less than the
\* other come out in any order.
SortSliceNone(s) == {s}
SortSlice(s) ==
    LET n == Len(s)
        perms == {f \in [1..n -> 1..n] : \A i, j \in 1..n : i # j => f[i] # f[j]}
    IN  {[i \in 1..n |-> s[f[i]]] : f \in
            {g \in perms : \A i, j \in 1..n : i < j => ~Less(s[g[j]], s[g[i]])}}

\* Analyze, lines 111-127: the rules to run are selected; in sequential mode they
\* are run at once, in parallel mode the workers are started
AnalyzeCall ==
    /\ apc = "call"
    /\ rulesToRun' = FilterRules(aRules)
    /\ IF parallelRules /\ Len(rulesToRun') > 1
       THEN /\ apc' = "wait"
            /\ ruleChan' = rulesToRun'
            /\ awpc' = [w \in RuleWorkers |->
                          IF w <= Min(IF maxWorkers <= 0 THEN MaxRuleWorkers
                                      ELSE maxWorkers, Len(rulesToRun'))
                          THEN "recv" ELSE "off"]
            /\ UNCHANGED <<diagnostics, checked>>
       ELSE /\ apc' = "sort"
            /\ diagnostics' = analyzeSequential(rulesToRun')
            /\ checked' = rulesToRun'
            /\ UNCHANGED <<ruleChan, awpc>>
    /\ UNCHANGED <<df, aRules, enabled, disabled, minSeverity, parallelRules,
                   maxWorkers, awrule, result>>

\* analyzeParallel, line 211: for rule := range ruleChan
RuleWorkerRecv(w) ==
    /\ awpc[w] = "recv"
    /\ IF ruleChan # <<>>
       THEN /\ awrule' = [awrule EXCEPT ![w] = Head(ruleChan)]
            /\ ruleChan' = Tail(ruleChan)
            /\ awpc' = [awpc EXCEPT ![w] = "check"]
       ELSE /\ awpc' = [awpc EXCEPT ![w] = "exited"]
            /\ UNCHANGED <<awrule, ruleChan>>
    /\ UNCHANGED <<df, aRules, enabled, disabled, minSeverity, parallelRules,
                   maxWorkers, apc, rulesToRun, diagnostics, checked, result>>

\* analyzeParallel, lines 212-234: the rule is run, its output filtered and, under
\* the mutex, appended
RuleWorkerCheck(w) ==
    /\ awpc[w] = "check"
    /\ diagnostics' = Collected(diagnostics, FilterSeverity(Check(awrule[w], df)))
    /\ checked' = Append(checked, awrule[w])
    /\ awpc' = [awpc EXCEPT ![w] = "recv"]
    /\ UNCHANGED <<df, aRules, enabled, disabled, minSeverity, parallelRules,
                   maxWorkers, apc, rulesToRun, ruleChan, awrule, result>>

\* analyzeParallel, lines 239-240: wg.Wait() returns when every worker is done
RuleWorkersDone ==
    /\ apc = "wait"
    /\ \A w \in RuleWorkers : awpc[w] \in {"off", "exited"}
    /\ apc' = "sort"
    /\ UNCHANGED <<df, aRules, enabled, disabled, minSeverity, parallelRules,
                   maxWorkers, rulesToRun, ruleChan, awpc, awrule, diagnostics,
                   checked, result>>

\* Analyze, lines 130-141: the diagnostics are sorted and returned
AnalyzeSort ==
    /\ apc = "sort"
    /\ result' \in SortSlice(diagnostics)
    /\ apc' = "done"
    /\ UNCHANGED <<df, aRules, enabled, disabled, minSeverity, parallelRules,
                   maxWorkers, rulesToRun, ruleChan, awpc, awrule, diagnostics,
                   checked>>

\* an Analyzer from New with its options, and a call of Analyze about to be made
AnInit ==
    /\ df \in 1..NumDockerfiles
    /\ aRules \in RuleLists
    /\ enabled \in SUBSET RuleIds
    /\ disabled \in SUBSET RuleIds
    /\ minSeverity \in {SeverityInfo, SeverityWarning}
    /\ parallelRules \in BOOLEAN
    /\ maxWorkers \in 0..MaxRuleWorkers
    /\ apc = "call"
    /\ rulesToRun = <<>>
    /\ ruleChan = <<>>
    /\ awpc = [w \in RuleWorkers |-> "off"]
    /\ awrule = [w \in RuleWorkers |-> ""]
    /\ diagnostics = <<>>
    /\ checked = <<>>
    /\ result = <<>>

\* no Analyze call
AnIdle ==
    /\ df = 1
    /\ aRules = <<>>
    /\ enabled = {}
    /\ disabled = {}
    /\ minSeverity = SeverityWarning
    /\ parallelRules = FALSE
    /\ maxWorkers = 0
    /\ apc = "off"
    /\ rulesToRun = <<>>
    /\ ruleChan = <<>>
    /\ awpc = [w \in RuleWorkers |-> "off"]
    /\ awrule = [w \in RuleWorkers |-> ""]
    /\ diagnostics = <<>>
    /\ checked = <<>>
    /\ result = <<>>

(***************************************************************************)
(* PART 4: the rule registries, internal/rules                             *)
(***************************************************************************)
VARIABLES
    registry,   \* Registry.rules of internal/rules/registry.go: id -> rule
    catRules    \* the rules list of a category package (security, style, ...)

regVars == <<registry, catRules>>

MaxRegistered == 3
NumImpls == 2

\* a rule: its id, and which implementation it is
RuleValues == [id : RuleIds, impl : 1..NumImpls]
NoRule == [id |-> "", impl |-> 0]

\* (*Registry).Register, registry.go lines 42-46: r.rules[rule.ID()] = rule
RegistryRegister(rule) ==
    /\ registry' = [registry EXCEPT ![rule.id] = rule]
    /\ UNCHANGED catRules

\* Register of a category package, sec008_healthcheck.go lines 85-87:
\* rules = append(rules, rule)
CategoryRegister(rule) ==
    /\ Len(catRules) < MaxRegistered
    /\ catRules' = Append(catRules, rule)
    /\ UNCHANGED registry

\* (*Registry).Count, and the ids registered
RegistryRules == {registry[id] : id \in {i \in RuleIds : registry[i] # NoRule}}

\* no rule registered
RegInit ==
    /\ registry = [id \in RuleIds |-> NoRule]
    /\ catRules = <<>>

(***************************************************************************)
(* PART 5: the optimizer and its transforms, internal/optimizer            *)
(***************************************************************************)
VARIABLES
    dockerfile,   \* df.Stages: a sequence of stages, each its Instructions
    original,     \* the Dockerfile as it was when the operation was called
    diags,        \* the rule ids of the diagnostics given to the operation
    dryRun,       \* Optimizer.dryRun, or ReorderCopyTransform.DryRun
    tpc,          \* "ready" before the call, "done" after it
    applied,      \* the name of the operation that was called
    changed,      \* the value Transform returned
    invoked,      \* the transforms whose Transform method Optimize called
    changesMade,  \* Result.ChangesMade
    transforms    \* Optimizer.transforms

optVars == <<dockerfile, original, diags, dryRun, tpc, applied, changed,
             invoked, changesMade, transforms>>

MaxStages == 2
MaxInstr == 3

\* Strings are sequences of characters; a word that no operation of the model
\* splits is written as one element.

\* strings.TrimSpace
RECURSIVE TrimLeft(_)
TrimLeft(s) ==
    IF s # <<>> /\ Head(s) \in {" ", "\n", "\t"} THEN TrimLeft(Tail(s)) ELSE s

RECURSIVE TrimRight(_)
TrimRight(s) ==
    IF s # <<>> /\ s[Len(s)] \in {" ", "\n", "\t"}
    THEN TrimRight(SubSeq(s, 1, Len(s) - 1)) ELSE s

TrimSpace(s) == TrimRight(TrimLeft(s))

\* strings.Join
RECURSIVE Join(_, _)
Join(elems, sep) ==
    IF elems = <<>> THEN <<>>
    ELSE IF Len(elems) = 1 THEN elems[1]
    ELSE elems[1] \o sep \o Join(Tail(elems), sep)

\* the sequences over S of length at most n
SeqsUpTo(S, n) == UNION {[1..k -> S] : k \in 0..n}

\* ---- merge-run ----------------------------------------------------------

\* the separator of transforms.mergeRuns, " \\\n    && ", and of optimizer.mergeRuns
TransformsSep == <<" ", "\\", "\n", " ", " ", " ", " ", "&", "&", " ">>
OptimizerSep == <<" ", "&", "&", " ">>

\* an instruction: its keyword, the fields that the transforms read (Command,
\* IsExec, Heredoc != nil, Heredoc.Content, Mount of a RUN; Sources and From of a
\* COPY or ADD; Path of a WORKDIR), and the lines of its StartPos and EndPos
Instruction(name) ==
    [name |-> name, command |-> <<>>, isExec |-> FALSE, heredoc |-> FALSE,
     content |-> <<>>, mount |-> <<>>, network |-> <<>>, security |-> <<>>,
     sources |-> <<>>, from |-> <<>>, path |-> <<>>, start |-> 0, end |-> 0]

\* a RUN in shell form, as parseRun builds it
ShellRun(command) == [Instruction("RUN") EXCEPT !.command = command]

\* the instructions of the merge-run model: RUNs in shell form (one with an empty
\* command, as "RUN" alone parses), in exec form, with a heredoc, with --mount, and
\* an instruction that is no RUN
MergeInstructions ==
    {ShellRun(<<"a">>), ShellRun(<<"b">>), ShellRun(<<>>),
     [ShellRun(<<>>) EXCEPT !.isExec = TRUE],
     [ShellRun(<<>>) EXCEPT !.heredoc = TRUE],
     [ShellRun(<<"a">>) EXCEPT !.mount = <<"c">>],
     Instruction("COPY")}

\* StartPos and EndPos: instruction i of a stage is on line i
Positioned(instructions) ==
    [i \in 1..Len(instructions) |->
        [instructions[i] EXCEPT !.start = i, !.end = i]]

\* a canMergeRun that lets every RUN into the group
canMergeRunAlways(run) == TRUE
\* canMergeRun: no heredoc, not exec form, no --mount
canMergeRun(run) ==
    ~(run.heredoc \/ run.isExec \/ run.mount # <<>>)

\* mergeRuns for two or more runs: the trimmed non-empty commands joined with sep,
\* from the first run's start to the last run's end
mergeRunsJoin(runs, sep) ==
    LET trimmed == [i \in 1..Len(runs) |-> TrimSpace(runs[i].command)]
        commands == SelectSeq(trimmed, LAMBDA c : c # <<>>)
    IN [ShellRun(Join(commands, sep)) EXCEPT !.start = runs[1].start,
                                             !.end = runs[Len(runs)].end]

\* flushRunGroup: nothing for an empty group, the run itself for a group of one,
\* the merged run (and *changed = true) otherwise
flushRunGroup(acc, sep) ==
    IF acc.runGroup = <<>> THEN acc
    ELSE IF Len(acc.runGroup) = 1
    THEN [acc EXCEPT !.result = Append(@, acc.runGroup[1]), !.runGroup = <<>>]
    ELSE [acc EXCEPT !.result = Append(@, mergeRunsJoin(acc.runGroup, sep)),
                     !.runGroup = <<>>, !.changed = TRUE]

\* the loop of mergeConsecutiveRuns over the instructions from index i on
RECURSIVE mergeLoop(_, _, _, _)
mergeLoop(instructions, i, acc, sep) ==
    IF i > Len(instructions) THEN flushRunGroup(acc, sep)
    ELSE LET inst == instructions[i]
         IN IF inst.name = "RUN" /\ canMergeRun(inst)
            THEN mergeLoop(instructions, i + 1,
                           [acc EXCEPT !.runGroup = Append(@, inst)], sep)
            ELSE mergeLoop(instructions, i + 1,
                           [flushRunGroup(acc, sep) EXCEPT !.result = Append(@, inst)],
                           sep)

\* mergeConsecutiveRuns: fewer than two instructions are returned as they are
mergeConsecutiveRuns(instructions, sep) ==
    IF Len(instructions) < 2
    THEN [result |-> instructions, runGroup |-> <<>>, changed |-> FALSE]
    ELSE mergeLoop(instructions, 1,
                   [result |-> <<>>, runGroup |-> <<>>, changed |-> FALSE], sep)

\* Transform of merge-run: every stage's instructions are replaced by the merged ones
MergeTransform(who, sep) ==
    /\ tpc = "ready"
    /\ LET merged == [s \in 1..Len(dockerfile) |->
                         mergeConsecutiveRuns(dockerfile[s], sep)]
       IN /\ dockerfile' = [s \in 1..Len(dockerfile) |-> merged[s].result]
          /\ changed' = (\E s \in 1..Len(dockerfile) : merged[s].changed)
    /\ tpc' = "done"
    /\ applied' = who
    /\ UNCHANGED <<original, diags, dryRun, invoked, changesMade, transforms>>

\* (*MergeRunTransform).Transform of package transforms
MergeRunTransform == MergeTransform("transforms.MergeRunTransform", TransformsSep)
\* (*MergeRun).Transform of package optimizer, the one AllTransforms returns
MergeRun == MergeTransform("optimizer.MergeRun", OptimizerSep)

\* a Dockerfile of one or two stages drawn from the instructions of the merge model
MergeInit ==
    /\ dockerfile \in
          {d \in SeqsUpTo({Positioned(st) : st \in SeqsUpTo(MergeInstructions, MaxInstr)},
                          MaxStages) : d # <<>>}
    /\ original = dockerfile
    /\ diags = {}
    /\ dryRun = FALSE
    /\ tpc = "ready"
    /\ applied = "none"
    /\ changed = FALSE
    /\ invoked = {}
    /\ changesMade = <<>>
    /\ transforms = <<>>

\* no Dockerfile under optimisation
OptIdle ==
    /\ dockerfile = <<>>
    /\ original = <<>>
    /\ diags = {}
    /\ dryRun = FALSE
    /\ tpc = "ready"
    /\ applied = "none"
    /\ changed = FALSE
    /\ invoked = {}
    /\ changesMade = <<>>
    /\ transforms = <<>>

\* the state in which an operation is called on Dockerfile d
TransformCall(d, dry) ==
    /\ dockerfile = d
    /\ original = d
    /\ diags = {}
    /\ dryRun = dry
    /\ tpc = "ready"
    /\ applied = "none"
    /\ changed = FALSE
    /\ invoked = {}
    /\ changesMade = <<>>
    /\ transforms = <<>>

\* the Dockerfiles of one to MaxStages stages, each of at most n of the instructions,
\* instruction i of a stage on line i
Dockerfiles(instructions, n) ==
    {d \in SeqsUpTo({Positioned(st) : st \in SeqsUpTo(instructions, n)}, MaxStages) :
        d # <<>>}

\* ---- reorder-copy -------------------------------------------------------

\* strings.Contains
Contains(s, substr) ==
    \E i \in 0..(Len(s) - Len(substr)) : SubSeq(s, i + 1, i + Len(substr)) = substr

\* strings.ToLower, on the words of the model
ToLower(s) ==
    [i \in 1..Len(s) |->
        CASE s[i] = "NPM" -> "npm" [] s[i] = "INSTALL" -> "install" [] OTHER -> s[i]]

\* isBroadSource: ".", "./", "*", "./*"
isBroadSource(src) ==
    src \in {<<".">>, <<".", "/">>, <<"*">>, <<".", "/", "*">>}

\* isBroadCopyInstruction: no --from, and some broad source
isBroadCopyInstruction(copy) ==
    /\ copy.from = <<>>
    /\ \E i \in 1..Len(copy.sources) : isBroadSource(copy.sources[i])

\* isBroadAddInstruction: some broad source
isBroadAddInstruction(add) ==
    \E i \in 1..Len(add.sources) : isBroadSource(add.sources[i])

\* installPatterns of isDependencyInstallCommand
installPatterns ==
    {<<"npm", " ", "install">>, <<"npm", " ", "ci">>, <<"yarn", " ", "install">>,
     <<"yarn", " ", "add">>, <<"pnpm", " ", "install">>, <<"pip", " ", "install">>,
     <<"pip3", " ", "install">>, <<"pipenv", " ", "install">>,
     <<"poetry", " ", "install">>, <<"go", " ", "mod", " ", "download">>,
     <<"go", " ", "get">>, <<"bundle", " ", "install">>, <<"gem", " ", "install">>,
     <<"composer", " ", "install">>, <<"cargo", " ", "fetch">>,
     <<"cargo", " ", "build">>, <<"apt-get", " ", "install">>,
     <<"apt", " ", "install">>, <<"apk", " ", "add">>, <<"yum", " ", "install">>,
     <<"dnf", " ", "install">>}

\* isDependencyInstallCommand: the lower-cased command contains a pattern
isDependencyInstallCommand(cmd) ==
    \E pattern \in installPatterns : Contains(ToLower(cmd), pattern)

\* analyzeStage, the loop from index i on. The break of the RUN case leaves the
\* switch, not the loop: depInstallIdx ends as the last dependency install.
\* Indices are 1-based here, 0 is the -1 of the code.
RECURSIVE analyzeLoop(_, _, _, _)
analyzeLoop(instructions, i, broadCopyIdx, depInstallIdx) ==
    IF i > Len(instructions)
    THEN [broadCopyIdx |-> broadCopyIdx, depInstallIdx |-> depInstallIdx]
    ELSE LET v == instructions[i]
         IN CASE v.name = "COPY" ->
                   analyzeLoop(instructions, i + 1,
                               IF broadCopyIdx = 0 /\ isBroadCopyInstruction(v)
                               THEN i ELSE broadCopyIdx,
                               depInstallIdx)
              [] v.name = "ADD" ->
                   analyzeLoop(instructions, i + 1,
                               IF broadCopyIdx = 0 /\ isBroadAddInstruction(v)
                               THEN i ELSE broadCopyIdx,
                               depInstallIdx)
              [] v.name = "RUN" ->
                   analyzeLoop(instructions, i + 1, broadCopyIdx,
                               IF isDependencyInstallCommand(v.command)
                               THEN i ELSE depInstallIdx)
              [] OTHER ->
                   analyzeLoop(instructions, i + 1, broadCopyIdx, depInstallIdx)

\* analyzeStage: nil (here the analysis with both indices 0) unless a broad copy
\* and a dependency install were found
analyzeStage(instructions) ==
    LET a == analyzeLoop(instructions, 1, 0, 0)
    IN IF a.broadCopyIdx = 0 \/ a.depInstallIdx = 0
       THEN [broadCopyIdx |-> 0, depInstallIdx |-> 0] ELSE a

\* lines 79-85: the broad copy is appended when insertIdx is past the end, and is
\* inserted after the element at insertIdx otherwise (insertIdx is 1-based here)
insertBefore(newInstructions, insertIdx, broadCopy) ==
    SubSeq(newInstructions, 1, insertIdx - 1) \o <<broadCopy>>
        \o SubSeq(newInstructions, insertIdx, Len(newInstructions))
insertAfter(newInstructions, insertIdx, broadCopy) ==
    IF insertIdx > Len(newInstructions) THEN Append(newInstructions, broadCopy)
    ELSE SubSeq(newInstructions, 1, insertIdx) \o <<broadCopy>>
            \o SubSeq(newInstructions, insertIdx + 1, Len(newInstructions))

\* t.DryRun
DryRunOff == FALSE
DryRun == dryRun

\* reorderStage: the stage's new instructions and the value returned
reorderStage(instructions) ==
    LET analysis == analyzeStage(instructions)
        bc == analysis.broadCopyIdx
        dep == analysis.depInstallIdx
        newInstructions ==
            SubSeq(instructions, 1, bc - 1) \o SubSeq(instructions, bc + 1, Len(instructions))
        insertIdx == IF bc < dep THEN dep - 1 ELSE dep
    IN IF bc = 0 \/ bc >= dep
       THEN [instructions |-> instructions, changed |-> FALSE]
       ELSE IF DryRun
       THEN [instructions |-> instructions, changed |-> TRUE]
       ELSE [instructions |-> insertAfter(newInstructions, insertIdx, instructions[bc]),
             changed |-> TRUE]

\* (*ReorderCopyTransform).Transform
ReorderCopyTransform ==
    /\ tpc = "ready"
    /\ LET reordered == [s \in 1..Len(dockerfile) |-> reorderStage(dockerfile[s])]
       IN /\ dockerfile' = [s \in 1..Len(dockerfile) |-> reordered[s].instructions]
          /\ changed' = (\E s \in 1..Len(dockerfile) : reordered[s].changed)
    /\ tpc' = "done"
    /\ applied' = "transforms.ReorderCopyTransform"
    /\ UNCHANGED <<original, diags, dryRun, invoked, changesMade, transforms>>

\* the instructions of the reorder-copy model: COPY . (broad), COPY package.json,
\* COPY --from=builder . , ADD ./ (broad), RUN npm install, RUN make
ReorderInstructions ==
    {[Instruction("COPY") EXCEPT !.sources = << <<".">> >>],
     [Instruction("COPY") EXCEPT !.sources = << <<"package.json">> >>],
     [Instruction("COPY") EXCEPT !.sources = << <<".">> >>, !.from = <<"builder">>],
     [Instruction("ADD") EXCEPT !.sources = << <<".", "/">> >>],
     ShellRun(<<"NPM", " ", "install">>),
     ShellRun(<<"make">>)}

\* a Dockerfile of the reorder-copy model, and the transform with DryRun set or not
ReorderInit ==
    \E d \in Dockerfiles(ReorderInstructions, MaxInstr), dry \in BOOLEAN :
        TransformCall(d, dry)

\* ---- workdir-absolute ---------------------------------------------------

\* A path is a sequence of "/" and of names; "$X" and "${X}" are the names that
\* hold a variable.

\* strings.HasPrefix(p, "/"), strings.HasPrefix(p, "$"), strings.Contains(p, "${")
HasSlashPrefix(p) == p # <<>> /\ p[1] = "/"
HasDollarPrefix(p) == p # <<>> /\ p[1] \in {"$X", "${X}"}
ContainsBrace(p) == \E i \in 1..Len(p) : p[i] = "${X}"

\* the elements of a path between its slashes, the empty ones left out
RECURSIVE Elements(_)
Elements(p) ==
    IF p = <<>> THEN <<>>
    ELSE IF Head(p) = "/" THEN Elements(Tail(p))
    ELSE <<Head(p)>> \o Elements(Tail(p))

\* path.Clean over the elements from index i on: "." is dropped, ".." removes the
\* element before it, is dropped at the root and kept at the start of a relative path
RECURSIVE cleanLoop(_, _, _, _)
cleanLoop(elems, i, out, rooted) ==
    IF i > Len(elems) THEN out
    ELSE IF elems[i] = "." THEN cleanLoop(elems, i + 1, out, rooted)
    ELSE IF elems[i] = ".."
    THEN IF out # <<>> /\ out[Len(out)] # ".."
         THEN cleanLoop(elems, i + 1, SubSeq(out, 1, Len(out) - 1), rooted)
         ELSE IF rooted THEN cleanLoop(elems, i + 1, out, rooted)
         ELSE cleanLoop(elems, i + 1, Append(out, ".."), rooted)
    ELSE cleanLoop(elems, i + 1, Append(out, elems[i]), rooted)

\* path.Clean: the shortest equivalent path; "." for the empty path
Clean(p) ==
    LET rooted == HasSlashPrefix(p)
        out == cleanLoop(Elements(p), 1, <<>>, rooted)
        joined == Join([i \in 1..Len(out) |-> <<out[i]>>], <<"/">>)
    IN IF rooted THEN <<"/">> \o joined
       ELSE IF out = <<>> THEN <<".">> ELSE joined

\* joinPath: Clean(TrimSuffix(base, "/") + "/" + rel), "/" for an empty base, and a
\* "/" in front of a result that is not absolute
joinPathFromRoot(base, rel) == Clean(<<"/">> \o rel)
joinPath(base, rel) ==
    LET trimmed == IF base # <<>> /\ base[Len(base)] = "/"
                   THEN SubSeq(base, 1, Len(base) - 1) ELSE base
        b == IF trimmed = <<>> THEN <<"/">> ELSE trimmed
        cleaned == Clean(b \o <<"/">> \o rel)
    IN IF ~HasSlashPrefix(cleaned) THEN <<"/">> \o cleaned ELSE cleaned

\* Transform, the loop over one stage's instructions from index i on: acc holds the
\* instructions so far, currentDir and changed
RECURSIVE workdirLoop(_, _, _)
workdirLoop(instructions, i, acc) ==
    IF i > Len(instructions) THEN acc
    ELSE LET wd == instructions[i]
             keep == [acc EXCEPT !.instructions = Append(@, wd)]
         IN IF wd.name # "WORKDIR" THEN workdirLoop(instructions, i + 1, keep)
            ELSE IF HasDollarPrefix(wd.path) \/ ContainsBrace(wd.path)
            THEN workdirLoop(instructions, i + 1,
                             IF HasSlashPrefix(wd.path)
                             THEN [keep EXCEPT !.currentDir = wd.path] ELSE keep)
            ELSE IF HasSlashPrefix(wd.path)
            THEN workdirLoop(instructions, i + 1,
                             [keep EXCEPT !.currentDir = Clean(wd.path)])
            ELSE LET absolutePath == joinPath(acc.currentDir, wd.path)
                 IN workdirLoop(instructions, i + 1,
                        [instructions |->
                             Append(acc.instructions, [wd EXCEPT !.path = absolutePath]),
                         currentDir |-> absolutePath,
                         changed |-> TRUE])

\* (*WorkdirAbsoluteTransform).Transform: every stage starts at "/"
WorkdirAbsoluteTransform ==
    /\ tpc = "ready"
    /\ LET done == [s \in 1..Len(dockerfile) |->
                       workdirLoop(dockerfile[s], 1,
                                   [instructions |-> <<>>, currentDir |-> <<"/">>,
                                    changed |-> FALSE])]
       IN /\ dockerfile' = [s \in 1..Len(dockerfile) |-> done[s].instructions]
          /\ changed' = (\E s \in 1..Len(dockerfile) : done[s].changed)
    /\ tpc' = "done"
    /\ applied' = "transforms.WorkdirAbsoluteTransform"
    /\ UNCHANGED <<original, diags, dryRun, invoked, changesMade, transforms>>

\* WORKDIR path
Workdir(p) == [Instruction("WORKDIR") EXCEPT !.path = p]

\* the instructions of the workdir-absolute model: WORKDIR a, WORKDIR .., WORKDIR ./b,
\* WORKDIR /a/, WORKDIR $X, WORKDIR /${X}, and a RUN
WorkdirInstructions ==
    {Workdir(<<"a">>), Workdir(<<"..">>), Workdir(<<".", "/", "b">>),
     Workdir(<<"/", "a", "/">>), Workdir(<<"$X">>), Workdir(<<"/", "${X}">>),
     ShellRun(<<"make">>)}

WorkdirInit ==
    \E d \in Dockerfiles(WorkdirInstructions, MaxInstr) : TransformCall(d, FALSE)

\* ---- remove-sudo --------------------------------------------------------

\* The characters of a command: white space, punctuation, and words. Two words next
\* to each other are one word of the command ("vi" "sudo" is visudo).
IsSpace(e) == e \in {" ", "\t", "\n"}
IsWord(e) == ~IsSpace(e) /\ e \notin {"-", "&", "\""}

\* the index of the first character from j on that is no white space
RECURSIVE SkipSpaces(_, _)
SkipSpaces(c, j) ==
    IF j <= Len(c) /\ IsSpace(c[j]) THEN SkipSpaces(c, j + 1) ELSE j

\* \bsudo\s+ at index i: the index after the match, 0 for no match
MatchSudo(c, i) ==
    IF /\ c[i] = "sudo"
       /\ (i = 1 \/ ~IsWord(c[i - 1]))
       /\ i + 1 <= Len(c) /\ IsSpace(c[i + 1])
    THEN SkipSpaces(c, i + 1) ELSE 0

\* -x\s+ at index j, x one of flags, and nothing else of a word: the index after it
MatchFlag(c, j, flags) ==
    IF /\ j + 2 <= Len(c)
       /\ c[j] = "-" /\ c[j + 1] \in flags /\ IsSpace(c[j + 2])
    THEN SkipSpaces(c, j + 2) ELSE 0

\* (?:-[EHnPS]\s+)* from index j on, greedy: the index after it
RECURSIVE MatchFlags(_, _)
MatchFlags(c, j) ==
    IF MatchFlag(c, j, {"E", "H", "n", "P", "S"}) > 0
    THEN MatchFlags(c, MatchFlag(c, j, {"E", "H", "n", "P", "S"})) ELSE j

\* sudoPatterns[k] at index i: the index after the match, 0 for no match
\*   1: \bsudo\s+(?:-[EHnPS]\s+)*   2: \bsudo\s+-E\s+
\*   3: \bsudo\s+-n\s+              4: \bsudo\s+
sudoPatterns(k, c, i) ==
    LET j == MatchSudo(c, i)
    IN IF j = 0 THEN 0
       ELSE CASE k = 1 -> MatchFlags(c, j)
              [] k = 2 -> MatchFlag(c, j, {"E"})
              [] k = 3 -> MatchFlag(c, j, {"n"})
              [] OTHER -> j

\* (-\w+\s+)*-u\s+ from index j on: some group of the sequence is -u
RECURSIVE MatchUserFlag(_, _)
MatchUserFlag(c, j) ==
    /\ j + 2 <= Len(c)
    /\ c[j] = "-" /\ IsWord(c[j + 1]) /\ IsSpace(c[j + 2])
    /\ (c[j + 1] = "u" \/ MatchUserFlag(c, SkipSpaces(c, j + 2)))

\* sudoUserPattern.MatchString: \bsudo\s+(-\w+\s+)*-u\s+ somewhere in the command
sudoUserPattern(c) ==
    \E i \in 1..Len(c) : MatchSudo(c, i) > 0 /\ MatchUserFlag(c, MatchSudo(c, i))

\* pattern.MatchString(cmd)
MatchString(k, c) == \E i \in 1..Len(c) : sudoPatterns(k, c, i) > 0

\* pattern.ReplaceAllString(cmd, ""), from index i on
RECURSIVE ReplaceAllString(_, _, _)
ReplaceAllString(k, c, i) ==
    IF i > Len(c) THEN <<>>
    ELSE IF sudoPatterns(k, c, i) > 0
    THEN ReplaceAllString(k, c, sudoPatterns(k, c, i))
    ELSE <<c[i]>> \o ReplaceAllString(k, c, i + 1)

\* strings.Fields from index i on: the fields between the runs of white space
RECURSIVE Fields(_, _, _)
Fields(c, i, field) ==
    IF i > Len(c) THEN IF field = <<>> THEN <<>> ELSE <<field>>
    ELSE IF IsSpace(c[i])
    THEN (IF field = <<>> THEN <<>> ELSE <<field>>) \o Fields(c, i + 1, <<>>)
    ELSE Fields(c, i + 1, Append(field, c[i]))

\* the loop of removeSudo over the patterns from k on
RECURSIVE applyPatterns(_, _)
applyPatterns(k, c) ==
    IF k > 4 THEN c
    ELSE applyPatterns(k + 1, IF MatchString(k, c) THEN ReplaceAllString(k, c, 1) ELSE c)

\* removeSudo: the command as it is when sudoUserPattern matches; else the patterns
\* applied in order and the white space normalised with Fields and Join
removeSudo(cmd) ==
    IF sudoUserPattern(cmd) THEN cmd
    ELSE Join(Fields(applyPatterns(1, cmd), 1, <<>>), <<" ">>)

\* Transform, for one instruction: the Command of a shell-form RUN without heredoc,
\* and the Content of a heredoc
removeSudoInstruction(inst) ==
    IF inst.name # "RUN" THEN inst
    ELSE LET shell == IF ~inst.isExec /\ ~inst.heredoc
                      THEN [inst EXCEPT !.command = removeSudo(@)] ELSE inst
         IN IF inst.heredoc THEN [shell EXCEPT !.content = removeSudo(@)] ELSE shell

\* (*RemoveSudoTransform).Transform: changed is set when removeSudo returns a
\* string that differs from its argument
RemoveSudoTransform ==
    /\ tpc = "ready"
    /\ dockerfile' =
          [s \in 1..Len(dockerfile) |->
              [i \in 1..Len(dockerfile[s]) |-> removeSudoInstruction(dockerfile[s][i])]]
    /\ changed' = (dockerfile' # dockerfile)
    /\ tpc' = "done"
    /\ applied' = "transforms.RemoveSudoTransform"
    /\ UNCHANGED <<original, diags, dryRun, invoked, changesMade, transforms>>

MaxSudoInstr == 1

\* the parts of the commands of the remove-sudo model:
\*   sudo apt | sudo -E apt | sudo -n -H apt | sudo -u app npm | apt | visudo -c |
\*   echo "a  b"
SudoParts ==
    {<<"sudo", " ", "apt">>,
     <<"sudo", " ", "-", "E", " ", "apt">>,
     <<"sudo", " ", "-", "n", " ", "-", "H", " ", "apt">>,
     <<"sudo", " ", "-", "u", " ", "app", " ", "npm">>,
     <<"apt">>,
     <<"vi", "sudo", " ", "-", "c">>,
     <<"echo", " ", "\"", "a", " ", " ", "b", "\"">>}

\* a command is one part, or two parts joined with " && "
SudoCommands ==
    SudoParts \cup {a \o <<" ", "&", "&", " ">> \o b : a \in SudoParts, b \in SudoParts}

\* the instructions of the remove-sudo model: RUNs in shell form, a RUN in exec form,
\* a RUN with a heredoc, and a COPY
SudoInstructions ==
    {ShellRun(c) : c \in SudoCommands}
        \cup {[Instruction("RUN") EXCEPT !.isExec = TRUE],
              [Instruction("RUN") EXCEPT !.heredoc = TRUE,
                                         !.content = <<"sudo", " ", "apt", "\n", "apt">>],
              Instruction("COPY")}

SudoInit ==
    \E d \in Dockerfiles(SudoInstructions, MaxSudoInstr) : TransformCall(d, FALSE)

\* ---- Optimize -----------------------------------------------------------

MaxOptInstr == 2
MaxTransforms == 2

\* the transforms given to the Optimizer in the model
TransformNames == {"optimizer.MergeRun", "transforms.ReorderCopyTransform"}

\* Name() and Rules() of a transform
Name(t) == IF t = "optimizer.MergeRun" THEN "merge-run" ELSE "reorder-copy"
Rules(t) == IF t = "optimizer.MergeRun" THEN {"PERF004"} ELSE {"PERF001"}

\* t.Transform(df, diags): the Dockerfile it leaves and the value it returns
Transform(t, d) ==
    IF t = "optimizer.MergeRun"
    THEN LET merged == [s \in 1..Len(d) |-> mergeConsecutiveRuns(d[s], OptimizerSep)]
         IN [dockerfile |-> [s \in 1..Len(d) |-> merged[s].result],
             changed |-> \E s \in 1..Len(d) : merged[s].changed]
    ELSE LET reordered == [s \in 1..Len(d) |-> reorderStage(d[s])]
         IN [dockerfile |-> [s \in 1..Len(d) |-> reordered[s].instructions],
             changed |-> \E s \in 1..Len(d) : reordered[s].changed]

\* lines 76-82: the transform handles a rule that has a diagnostic
shouldApplyAlways(t, ruleIDs) == TRUE
shouldApply(t, ruleIDs) == Rules(t) \cap ruleIDs # {}

\* Optimize, the loop over o.transforms from index i on: a transform that should
\* not apply is skipped; in dry-run a Change with Applied false is recorded; else
\* Transform is called, and a Change with Applied true recorded when it returns true
RECURSIVE optimizeLoop(_, _, _)
optimizeLoop(i, ruleIDs, acc) ==
    IF i > Len(transforms) THEN acc
    ELSE LET t == transforms[i]
             out == Transform(t, acc.dockerfile)
         IN IF ~shouldApply(t, ruleIDs) THEN optimizeLoop(i + 1, ruleIDs, acc)
            ELSE IF dryRun
            THEN optimizeLoop(i + 1, ruleIDs,
                     [acc EXCEPT !.changesMade =
                         Append(@, [transform |-> Name(t), applied |-> FALSE])])
            ELSE optimizeLoop(i + 1, ruleIDs,
                     [dockerfile |-> out.dockerfile,
                      invoked |-> acc.invoked \cup {t},
                      changesMade |->
                          IF out.changed
                          THEN Append(acc.changesMade,
                                      [transform |-> Name(t), applied |-> TRUE])
                          ELSE acc.changesMade])

\* (*Optimizer).Optimize
Optimize ==
    /\ tpc = "ready"
    /\ LET acc == optimizeLoop(1, diags, [dockerfile |-> dockerfile, invoked |-> {},
                                          changesMade |-> <<>>])
       IN /\ dockerfile' = acc.dockerfile
          /\ invoked' = acc.invoked
          /\ changesMade' = acc.changesMade
    /\ tpc' = "done"
    /\ applied' = "Optimize"
    /\ UNCHANGED <<original, diags, dryRun, changed, transforms>>

\* the instructions of the Optimize model: COPY . , COPY package.json,
\* RUN npm install, RUN make
OptInstructions ==
    {[Instruction("COPY") EXCEPT !.sources = << <<".">> >>],
     [Instruction("COPY") EXCEPT !.sources = << <<"package.json">> >>],
     ShellRun(<<"npm", " ", "install">>),
     ShellRun(<<"make">>)}

\* an Optimizer with some transforms, in dry-run or not, a Dockerfile and the rule
\* ids of some diagnostics
OptimizeInit ==
    /\ dockerfile \in Dockerfiles(OptInstructions, MaxOptInstr)
    /\ original = dockerfile
    /\ diags \in SUBSET {"PERF001", "PERF004", "SEC005"}
    /\ dryRun \in BOOLEAN
    /\ tpc = "ready"
    /\ applied = "none"
    /\ changed = FALSE
    /\ invoked = {}
    /\ changesMade = <<>>
    /\ transforms \in SeqsUpTo(TransformNames, MaxTransforms)

(***************************************************************************)
(* PART 6: rules that read the Dockerfile, internal/rules                  *)
(***************************************************************************)
VARIABLES
    threshold,    \* ctx.Config["max_consecutive"], or NoConfig when it is not set
    perfDiags     \* the diagnostics Check returned

ruleVars == <<threshold, perfDiags>>

MaxPerfInstr == 5
MaxThreshold == 3
NoConfig == -1

\* the instructions of the PERF004 model: a RUN and an instruction that is no RUN
PerfInstructions == {ShellRun(<<"a">>), Instruction("COPY")}

\* the first line of stage s: its FROM; instruction i of the stage is i lines below
StageLine(s) == (s - 1) * (MaxPerfInstr + 1) + 1

\* WithRange(firstRun.Pos(), lastRun.End())
DiagRangeFirstRun(runs) == <<runs[1].start, runs[1].end>>
DiagRange(runs) == <<runs[1].start, runs[Len(runs)].end>>

\* reportConsecutiveRuns: nothing for fewer than two runs, else one diagnostic
\* appended, from the first run's Pos to the last run's End
reportConsecutiveRuns(runs, ds) ==
    IF Len(runs) < 2 THEN ds
    ELSE Append(ds, [rule |-> "PERF004", range |-> DiagRange(runs),
                     count |-> Len(runs)])

\* Check, the loop over one stage's instructions from index i on, and the report of
\* what remains at the end
RECURSIVE perf004Stage(_, _, _, _, _)
perf004Stage(instructions, i, consecutiveRuns, ds, limit) ==
    IF i > Len(instructions)
    THEN IF Len(consecutiveRuns) >= limit
         THEN reportConsecutiveRuns(consecutiveRuns, ds) ELSE ds
    ELSE IF instructions[i].name = "RUN"
    THEN perf004Stage(instructions, i + 1, Append(consecutiveRuns, instructions[i]),
                      ds, limit)
    ELSE perf004Stage(instructions, i + 1, <<>>,
                      IF Len(consecutiveRuns) >= limit
                      THEN reportConsecutiveRuns(consecutiveRuns, ds) ELSE ds,
                      limit)

\* Check, the loop over the stages from index s on
RECURSIVE perf004Stages(_, _, _, _)
perf004Stages(stages, s, ds, limit) ==
    IF s > Len(stages) THEN ds
    ELSE perf004Stages(stages, s + 1, perf004Stage(stages[s], 1, <<>>, ds, limit),
                       limit)

\* (*PERF004ConsecutiveRun).Check: the threshold is 2 unless the configuration
\* holds an int
PERF004Check ==
    /\ tpc = "ready"
    /\ perfDiags' = perf004Stages(dockerfile, 1, <<>>,
                                  IF threshold = NoConfig THEN 2 ELSE threshold)
    /\ tpc' = "done"
    /\ applied' = "PERF004"
    /\ UNCHANGED <<dockerfile, original, diags, dryRun, changed, invoked,
                   changesMade, transforms, threshold>>

\* Check once more, on the Dockerfile a merge-run transform has left
PERF004Recheck ==
    /\ tpc = "done"
    /\ applied \in {"transforms.MergeRunTransform", "optimizer.MergeRun"}
    /\ perfDiags' = perf004Stages(dockerfile, 1, <<>>,
                                  IF threshold = NoConfig THEN 2 ELSE threshold)
    /\ tpc' = "checked"
    /\ UNCHANGED <<dockerfile, original, diags, dryRun, applied, changed, invoked,
                   changesMade, transforms, threshold>>

\* the instructions of the fix model: a RUN in shell form, one with --network and
\* --security flags, one in exec form, and an instruction that is no RUN
FixInstructions ==
    {ShellRun(<<"a">>),
     [ShellRun(<<"b">>) EXCEPT !.network = <<"none">>, !.security = <<"insecure">>],
     [ShellRun(<<>>) EXCEPT !.isExec = TRUE],
     Instruction("COPY")}

\* a Dockerfile about to be fixed by merge-run and analysed again
FixInit ==
    /\ dockerfile \in Dockerfiles(FixInstructions, MaxInstr)
    /\ original = dockerfile
    /\ diags = {"PERF004"}
    /\ dryRun = FALSE
    /\ tpc = "ready"
    /\ applied = "none"
    /\ changed = FALSE
    /\ invoked = {}
    /\ changesMade = <<>>
    /\ transforms = <<>>
    /\ threshold \in {NoConfig} \cup 0..MaxThreshold
    /\ perfDiags = <<>>

\* a Dockerfile of one or two stages of RUNs and other instructions, with the
\* threshold configured or not
PerfInit ==
    /\ \E d \in SeqsUpTo(SeqsUpTo(PerfInstructions, MaxPerfInstr), MaxStages) :
          /\ d # <<>>
          /\ dockerfile =
                [s \in 1..Len(d) |->
                    [i \in 1..Len(d[s]) |->
                        [d[s][i] EXCEPT !.start = StageLine(s) + i,
                                        !.end = StageLine(s) + i]]]
    /\ original = dockerfile
    /\ diags = {}
    /\ dryRun = FALSE
    /\ tpc = "ready"
    /\ applied = "none"
    /\ changed = FALSE
    /\ invoked = {}
    /\ changesMade = <<>>
    /\ transforms = <<>>
    /\ threshold \in {NoConfig} \cup 0..MaxThreshold
    /\ perfDiags = <<>>

\* no rule has run
RuleIdle ==
    /\ threshold = NoConfig
    /\ perfDiags = <<>>

(***************************************************************************)
(* PART 7: the lexer (lexer.Lexer)                                         *)
(*                                                                         *)
(* The input is a sequence of elements.  An element is one character, but  *)
(* for "run" and "onbuild", which stand for the letters of these words: a *)
(* word is a run of adjacent word elements, and it spells a keyword when   *)
(* it is one of these elements alone.  No input holds an escape            *)
(* directive, a heredoc, a flag or a brace, so the escape character is the *)
(* backslash throughout.                                                   *)
(***************************************************************************)
VARIABLES input, pos, atLineStart, inInstruction, tokens

lexVars == <<input, pos, atLineStart, inInstruction, tokens>>

MaxInput == 4

LexAlphabet == {"run", "x", " ", "\n", "\"", "$", "=", "\\", "#"}

\* l.ch when l.pos is p: 0 (EOF) past the end of the input
EOF == "EOF"
ch(p) == IF p > Len(input) THEN EOF ELSE input[p]
peekChar(p) == ch(p + 1)

escapeChar == "\\"

isWordChar(r) == r \in {"run", "onbuild", "x"}
isVarChar(r) == r \in {"run", "onbuild", "x"}

\* strings.ToUpper, element by element
Upper(r) ==
    CASE r = "run" -> "RUN" [] r = "onbuild" -> "ONBUILD" [] r = "x" -> "X" [] OTHER -> r
ToUpper(literal) == [i \in 1..Len(literal) |-> Upper(literal[i])]

instructionKeywords ==
    {"FROM", "RUN", "CMD", "LABEL", "MAINTAINER", "EXPOSE", "ENV", "ADD", "COPY",
     "ENTRYPOINT", "VOLUME", "USER", "WORKDIR", "ARG", "ONBUILD", "STOPSIGNAL",
     "HEALTHCHECK", "SHELL"}

\* the token type of an instruction keyword, else Word
LookupKeyword(ident) ==
    IF Len(ident) = 1 /\ ident[1] \in instructionKeywords THEN ident[1] ELSE "WORD"

\* the number of characters an element stands for
Width(r) == CASE r = "run" -> 3 [] r = "onbuild" -> 7 [] OTHER -> 1

\* l.line, l.column and the byte offset l.pos when the current character is element p,
\* as readChar counts them: reading a newline starts the next line at column 0
lineAtBeforeNewline(p) == 1 + Cardinality({i \in 1..(p - 1) : i <= Len(input) /\ input[i] = "\n"})
lineAt(p) == 1 + Cardinality({i \in 1..p : i <= Len(input) /\ input[i] = "\n"})
RECURSIVE columnAt(_)
columnAt(p) ==
    IF ch(p) = "\n" THEN 0
    ELSE IF p = 1 THEN 1
    ELSE columnAt(p - 1) + Width(input[p - 1])
RECURSIVE offsetAt(_)
offsetAt(p) == IF p = 1 THEN 0 ELSE offsetAt(p - 1) + Width(ch(p - 1))

Position(p) == [line |-> lineAt(p), column |-> columnAt(p), offset |-> offsetAt(p)]

\* makeToken: the start is what markStart recorded, the end the current position
makeToken(type, start, end) ==
    [type |-> type, literal |-> SubSeq(input, start, end - 1),
     pos |-> Position(start), endPos |-> Position(end)]

\* skips spaces (not newlines): the position of the first element that is no space
RECURSIVE skipWhitespace(_)
skipWhitespace(p) == IF ch(p) = " " THEN skipWhitespace(p + 1) ELSE p

\* the position after the word elements from p on
RECURSIVE wordEnd(_)
wordEnd(p) == IF isWordChar(ch(p)) THEN wordEnd(p + 1) ELSE p

\* readWord: a keyword token only when at the start of a line; clears atLineStart
readWord(p, lineStart, inInstr) ==
    LET end == wordEnd(p)
        tokType == LookupKeyword(ToUpper(SubSeq(input, p, end - 1)))
    IN IF lineStart /\ tokType # "WORD"
       THEN [tok |-> makeToken(tokType, p, end), pos |-> end,
             atLineStart |-> FALSE, inInstruction |-> TRUE]
       ELSE [tok |-> makeToken("WORD", p, end), pos |-> end,
             atLineStart |-> FALSE, inInstruction |-> inInstr]

\* readString, the loop after the opening quote: the position after the string
RECURSIVE stringEnd(_)
stringEnd(p) ==
    IF ch(p) = EOF THEN p
    ELSE IF ch(p) = escapeChar /\ peekChar(p) \in {"\"", escapeChar} THEN stringEnd(p + 2)
    ELSE IF ch(p) = "\"" THEN p + 1
    ELSE IF ch(p) = "\n" THEN p
    ELSE stringEnd(p + 1)

\* readVariable, the $VAR branch: the position after the variable name
RECURSIVE varEnd(_)
varEnd(p) == IF isVarChar(ch(p)) THEN varEnd(p + 1) ELSE p

\* readComment: the position of the end of the line
RECURSIVE commentEnd(_)
commentEnd(p) == IF ch(p) # EOF /\ ch(p) # "\n" THEN commentEnd(p + 1) ELSE p

\* NextToken from position p0: the token, and the lexer's fields after it
RECURSIVE nextToken(_, _, _)
nextToken(p0, lineStart, inInstr) ==
    LET p == skipWhitespace(p0)
        same(type, end) == [tok |-> makeToken(type, p, end), pos |-> end,
                            atLineStart |-> lineStart, inInstruction |-> inInstr]
    IN IF ch(p) = EOF THEN same("EOF", p)
       ELSE IF ch(p) = "\n"
       THEN [tok |-> makeToken("NEWLINE", p, p + 1), pos |-> p + 1,
             atLineStart |-> TRUE, inInstruction |-> FALSE]
       ELSE IF ch(p) = "#" THEN same("COMMENT", commentEnd(p))
       ELSE IF ch(p) = escapeChar /\ peekChar(p) = "\n"
       THEN nextToken(p + 2, lineStart, inInstr)
       ELSE IF ch(p) = "=" THEN same("EQUALS", p + 1)
       ELSE IF ch(p) = escapeChar THEN same("BACKSLASH", p + 1)
       ELSE IF ch(p) = "\"" THEN same("STRING", stringEnd(p + 1))
       ELSE IF ch(p) = "$" THEN same("VARIABLE", varEnd(p + 1))
       ELSE readWord(p, lineStart, inInstr)

\* Tokenize's loop ends once the token appended is EOF
sawTwoEOF(toks) ==
    Len(toks) >= 2 /\ toks[Len(toks)].type = "EOF" /\ toks[Len(toks) - 1].type = "EOF"
sawEOF(toks) == toks # <<>> /\ toks[Len(toks)].type = "EOF"

\* one call of NextToken by Tokenize, which stops after the EOF token
NextToken ==
    /\ ~sawEOF(tokens)
    /\ LET r == nextToken(pos, atLineStart, inInstruction)
       IN /\ tokens' = Append(tokens, r.tok)
          /\ pos' = r.pos
          /\ atLineStart' = r.atLineStart
          /\ inInstruction' = r.inInstruction
    /\ UNCHANGED input

\* lexer.New on an input
LexNew(in) ==
    /\ input = in
    /\ pos = 1
    /\ atLineStart = TRUE
    /\ inInstruction = FALSE
    /\ tokens = <<>>

LexInit == \E in \in SeqsUpTo(LexAlphabet, MaxInput) : LexNew(in)
LexIdle == LexNew(<<>>)

(***************************************************************************)
(* PART 8: the parser's instructions of a stage (parser.Parser)            *)
(*                                                                         *)
(* Parse tokenizes the whole input and then parses the token list.  The    *)
(* model parses the lines that follow a stage's FROM line: the loop of     *)
(* parseStage, with parseInstruction, parseRun in shell form and           *)
(* parseOnbuild.  The input is made of the words "onbuild", "run" and "x", *)
(* spaces and line ends.                                                   *)
(***************************************************************************)
VARIABLES
    ppos,           \* p.pos, the index of p.current in the token list (1-based)
    instructions,   \* stage.Instructions
    errors          \* p.errors, the messages

parseVars == <<ppos, instructions, errors>>

MaxParseInput == 5

ParseAlphabet == {"onbuild", "run", "x", " ", "\n"}

\* no instruction: the nil that parseInstruction returns, or a field left unset
NoInstruction == [name |-> "nil"]

\* p.current when p.pos is i: past the end of the list advance sets a bare EOF token
current(i) ==
    IF i <= Len(tokens) THEN tokens[i]
    ELSE [type |-> "EOF", literal |-> <<>>, pos |-> [line |-> 0, column |-> 0, offset |-> 0],
          endPos |-> [line |-> 0, column |-> 0, offset |-> 0]]

\* Token.IsInstruction
IsInstruction(type) == type \in instructionKeywords

\* skipCommentsAndNewlines: the index of the first token that is neither
RECURSIVE skipCommentsAndNewlines(_)
skipCommentsAndNewlines(i) ==
    IF current(i).type \in {"NEWLINE", "COMMENT"} THEN skipCommentsAndNewlines(i + 1)
    ELSE i

\* skipToNextInstruction: to the first token after a line end that is an
\* instruction keyword, or to EOF
RECURSIVE skipToNextInstruction(_)
skipToNextInstruction(i) ==
    IF current(i).type = "EOF" THEN i
    ELSE IF current(i).type = "NEWLINE"
    THEN IF IsInstruction(current(i + 1).type) THEN i + 1
         ELSE skipToNextInstruction(i + 1)
    ELSE skipToNextInstruction(i + 1)

\* collectRestOfLine: the literals up to the line end, a space between two of them
\* where the source had whitespace
RECURSIVE collectRestOfLine(_, _, _, _)
collectRestOfLine(i, sb, lastEnd, first) ==
    IF current(i).type \in {"NEWLINE", "EOF"} THEN [command |-> sb, pos |-> i]
    ELSE collectRestOfLine(i + 1,
             (IF ~first /\ current(i).pos.offset > lastEnd THEN sb \o <<" ">> ELSE sb)
                 \o current(i).literal,
             current(i).endPos.offset, FALSE)

\* parseRun, shell form without flags: the rest of the line is the command, and the
\* line end is consumed
parseRun(i) ==
    LET rest == collectRestOfLine(i + 1, <<>>, 0, TRUE)
    IN [inst |-> [name |-> "RUN", command |-> rest.command],
        pos |-> IF current(rest.pos).type = "NEWLINE" THEN rest.pos + 1 ELSE rest.pos,
        errors |-> <<>>]

\* parseInstruction with p.pos = i and p.current.Type = type (parseOnbuild sets the
\* type of a word that spells a keyword before it calls parseInstruction), and
\* parseOnbuild: the nested instruction is parsed when the token after ONBUILD is an
\* instruction keyword, or a word whose upper case is one
RECURSIVE parseInstruction(_, _)
parseOnbuild(i) ==
    LET next == current(i + 1)
        tokType == IF next.type = "WORD" THEN LookupKeyword(ToUpper(next.literal))
                   ELSE next.type
        nested == parseInstruction(i + 1, tokType)
    IN IF IsInstruction(tokType)
       THEN [inst |-> [name |-> "ONBUILD", instruction |-> nested.inst],
             pos |-> nested.pos, errors |-> nested.errors]
       ELSE [inst |-> [name |-> "ONBUILD", instruction |-> NoInstruction],
             pos |-> i + 1, errors |-> <<>>]
parseInstruction(i, type) ==
    IF type = "RUN" THEN parseRun(i)
    ELSE IF type = "ONBUILD" THEN parseOnbuild(i)
    ELSE [inst |-> NoInstruction, pos |-> skipToNextInstruction(i),
          errors |-> << <<"unexpected token", type>> >>]

\* parseStage, one round of its loop over the instructions: comments and line ends
\* are skipped, and unless the stage ends there an instruction is parsed and, if it
\* is not nil, appended
ParseStageStep ==
    /\ sawEOF(tokens)
    /\ current(ppos).type \notin {"EOF", "FROM"}
    /\ LET i == skipCommentsAndNewlines(ppos)
           r == parseInstruction(i, current(i).type)
       IN IF current(i).type \in {"EOF", "FROM"}
          THEN /\ ppos' = i
               /\ UNCHANGED <<instructions, errors>>
          ELSE /\ ppos' = r.pos
               /\ instructions' = IF r.inst # NoInstruction
                                  THEN Append(instructions, r.inst) ELSE instructions
               /\ errors' = errors \o r.errors

\* parser.New, and the lexer on the lines after a FROM line
ParseNew ==
    /\ ppos = 1
    /\ instructions = <<>>
    /\ errors = <<>>
ParseInit ==
    /\ \E in \in SeqsUpTo(ParseAlphabet, MaxParseInput) : LexNew(in)
    /\ ParseNew
ParseIdle == ParseNew

(***************************************************************************)
(* The specifications                                                      *)
(***************************************************************************)
vars == <<cacheVars, procVars, anVars, regVars, optVars, ruleVars, lexVars, parseVars>>

\* what a step of one part leaves unchanged
CacheFrame == UNCHANGED <<procVars, anVars, regVars, optVars, ruleVars, lexVars, parseVars>>
ProcFrame == UNCHANGED <<cacheVars, anVars, regVars, optVars, ruleVars, lexVars, parseVars>>
AnFrame == UNCHANGED <<cacheVars, procVars, regVars, optVars, ruleVars, lexVars, parseVars>>
RegFrame == UNCHANGED <<cacheVars, procVars, anVars, optVars, ruleVars, lexVars, parseVars>>
OptFrame == UNCHANGED <<cacheVars, procVars, anVars, regVars, ruleVars, lexVars, parseVars>>
RuleFrame == UNCHANGED <<cacheVars, procVars, anVars, regVars, lexVars, parseVars>>
LexFrame == UNCHANGED <<cacheVars, procVars, anVars, regVars, optVars, ruleVars, parseVars>>
ParseFrame == UNCHANGED <<cacheVars, procVars, anVars, regVars, optVars, ruleVars, lexVars>>

\* the cache alone
CacheIdle ==
    /\ CacheInitWith(FALSE)
    /\ maxEntries = 1

Init == CacheInitWith(FALSE) /\ ProcIdle /\ AnIdle /\ RegInit /\ OptIdle /\ RuleIdle /\ LexIdle /\ ParseIdle
Next ==
    \/ \E p \in Procs, file \in Keys, content \in Contents :
          GetLookup(p, file, content) /\ CacheFrame
    \/ \E p \in Procs : GetCheckHash(p) /\ CacheFrame
    \/ \E p \in Procs : GetCheckAge(p) /\ CacheFrame
    \/ \E p \in Procs : GetRemove(p) /\ CacheFrame
    \/ \E p \in Procs : GetTouch(p) /\ CacheFrame
    \/ \E p \in Procs : GetReturn(p) /\ CacheFrame
    \/ \E p \in Procs, file \in Keys, content \in Contents :
          PutExisting(p, file, content) /\ CacheFrame
    \/ \E p \in Procs, file \in Keys, content \in Contents :
          PutNew(p, file, content) /\ CacheFrame
    \/ \E p \in Procs, file \in Keys : Invalidate(p, file) /\ CacheFrame
    \/ \E p \in Procs : Clear(p) /\ CacheFrame
    \/ Tick /\ CacheFrame
Spec == Init /\ [][Next]_vars

\* the cache with its calls recorded
InitRecorded == CacheInitWith(TRUE) /\ ProcIdle /\ AnIdle /\ RegInit /\ OptIdle /\ RuleIdle /\ LexIdle /\ ParseIdle
SpecRecorded == InitRecorded /\ [][Next]_vars

\* one call of Process
InitProc == ProcInit /\ CacheIdle /\ AnIdle /\ RegInit /\ OptIdle /\ RuleIdle /\ LexIdle /\ ParseIdle
NextProc ==
    \/ ProcessCall /\ ProcFrame
    \/ \E w \in Workers : WorkerRecv(w) /\ ProcFrame
    \/ \E w \in Workers : WorkerCancelled(w) /\ ProcFrame
    \/ \E w \in Workers : WorkerDispatch(w) /\ ProcFrame
    \/ \E w \in Workers : WorkerFnReturn(w) /\ ProcFrame
    \/ CloseResults /\ ProcFrame
    \/ Collect /\ ProcFrame
    \/ ProcessReturn /\ ProcFrame
    \/ Cancel /\ ProcFrame
SpecProc == InitProc /\ [][NextProc]_vars

\* the goroutines of Process keep running while they can, and every call of fn
\* returns; whether and when ctx is cancelled is up to the caller
ProcRun ==
    \/ ProcessCall
    \/ \E w \in Workers : WorkerRecv(w) \/ WorkerCancelled(w) \/ WorkerDispatch(w)
                              \/ WorkerFnReturn(w)
    \/ CloseResults
    \/ Collect
    \/ ProcessReturn
SpecProcFair == SpecProc /\ WF_vars(ProcRun /\ ProcFrame)

\* one call of Analyze
InitAn == AnInit /\ CacheIdle /\ ProcIdle /\ RegInit /\ OptIdle /\ RuleIdle /\ LexIdle /\ ParseIdle
NextAn ==
    \/ AnalyzeCall /\ AnFrame
    \/ \E w \in RuleWorkers : RuleWorkerRecv(w) /\ AnFrame
    \/ \E w \in RuleWorkers : RuleWorkerCheck(w) /\ AnFrame
    \/ RuleWorkersDone /\ AnFrame
    \/ AnalyzeSort /\ AnFrame
SpecAn == InitAn /\ [][NextAn]_vars

\* registrations
InitReg == RegInit /\ CacheIdle /\ ProcIdle /\ AnIdle /\ OptIdle /\ RuleIdle /\ LexIdle /\ ParseIdle
NextReg ==
    \/ \E rule \in RuleValues : RegistryRegister(rule) /\ RegFrame
    \/ \E rule \in RuleValues : CategoryRegister(rule) /\ RegFrame
SpecReg == InitReg /\ [][NextReg]_vars

\* what is idle while the optimizer's part runs
RestIdle == CacheIdle /\ ProcIdle /\ AnIdle /\ RegInit /\ LexIdle /\ ParseIdle

\* one call of a merge-run transform
InitMerge == MergeInit /\ RuleIdle /\ RestIdle
NextMerge ==
    \/ MergeRunTransform /\ OptFrame
    \/ MergeRun /\ OptFrame
SpecMerge == InitMerge /\ [][NextMerge]_vars

\* ---- the cache one call at a time, to which C1 compares the cache --------
\* A cache state is the sequence of its entries, most recently used first.

NoHash == <<"sha256", 0>>

SeqIndex(q, file) == CHOOSE i \in 1..Len(q) : q[i].key = file
SeqHas(q, file) == \E i \in 1..Len(q) : q[i].key = file
SeqWithout(q, file) == SelectSeq(q, LAMBDA x : x.key # file)

\* the effect and the result of one call made on its own, while no time passes
CallAlone(q, c) ==
    CASE c.op = "get" ->
           IF ~SeqHas(q, c.file) THEN [q |-> q, hit |-> FALSE, hash |-> NoHash]
           ELSE IF q[SeqIndex(q, c.file)].hash # hashContent(c.content)
                THEN [q |-> SeqWithout(q, c.file), hit |-> FALSE, hash |-> NoHash]
                ELSE [q |-> <<q[SeqIndex(q, c.file)]>> \o SeqWithout(q, c.file),
                      hit |-> TRUE, hash |-> hashContent(c.content)]
      [] c.op = "put" ->
           LET q1 == <<[key |-> c.file, hash |-> hashContent(c.content)]>>
                        \o SeqWithout(q, c.file)
           IN  [q |-> SubSeq(q1, 1, Min(Len(q1), maxEntries)),
                hit |-> FALSE, hash |-> NoHash]
      [] c.op = "invalidate" ->
           [q |-> SeqWithout(q, c.file), hit |-> FALSE, hash |-> NoHash]
      [] OTHER -> [q |-> <<>>, hit |-> FALSE, hash |-> NoHash]

\* The calls of hist made one at a time in the order ord, from the cache state q:
\* FALSE if some call's result differs from the recorded one, else the final state.
RECURSIVE RunInOrder(_, _, _)
RunInOrder(q, ord, i) ==
    IF i > Len(ord) THEN [ok |-> TRUE, q |-> q]
    ELSE LET c == hist[ord[i]]
             r == CallAlone(q, c)
         IN  IF r.hit = c.hit /\ r.hash = c.hash
             THEN RunInOrder(r.q, ord, i + 1)
             ELSE [ok |-> FALSE, q |-> q]

\* the orders of the recorded calls that keep every call that returned before
\* another was invoked ahead of it
Orders ==
    {ord \in [1..Len(hist) -> 1..Len(hist)] :
        /\ \A i, j \in 1..Len(hist) : i # j => ord[i] # ord[j]
        /\ \A i, j \in 1..Len(hist) :
              hist[ord[j]].res < hist[ord[i]].inv => j < i}

\* the cache's contents as its callers can observe them: filename -> hash
ContentsOf(q) == [k \in Keys |-> IF SeqHas(q, k) THEN q[SeqIndex(q, k)].hash ELSE NoHash]
CacheContents == [k \in Keys |-> IF cache[k] = Nil THEN NoHash ELSE ent[cache[k]].hash]

Quiescent == \A p \in Procs : cpc[p] = "idle"

\* C1: every Get is atomic with respect to concurrent Put, Invalidate and Clear:
\* once all calls of a run have returned (here: of a run during which no time has
\* passed, so that no entry expires), the values they returned and the cache's
\* contents are those of the same calls made one at a time in some order that
\* respects the order of calls that did not overlap.
C1_Linearizable ==
    (recording /\ Quiescent /\ now = 0 /\ cstatus = "ok")
        => \E ord \in Orders :
              LET r == RunInOrder(<<>>, ord, 1)
              IN  r.ok /\ ContentsOf(r.q) = CacheContents

\* one call of reorder-copy's Transform
InitReorder == ReorderInit /\ RuleIdle /\ RestIdle
NextReorder == ReorderCopyTransform /\ OptFrame
SpecReorder == InitReorder /\ [][NextReorder]_vars

\* one call of workdir-absolute's Transform
InitWorkdir == WorkdirInit /\ RuleIdle /\ RestIdle
NextWorkdir == WorkdirAbsoluteTransform /\ OptFrame
SpecWorkdir == InitWorkdir /\ [][NextWorkdir]_vars

\* one call of remove-sudo's Transform
InitSudo == SudoInit /\ RuleIdle /\ RestIdle
NextSudo == RemoveSudoTransform /\ OptFrame
SpecSudo == InitSudo /\ [][NextSudo]_vars

\* one call of Optimize, or of reorder-copy's Transform
InitOptimize == OptimizeInit /\ RuleIdle /\ RestIdle
NextOptimize ==
    \/ Optimize /\ OptFrame
    \/ ReorderCopyTransform /\ OptFrame
SpecOptimize == InitOptimize /\ [][NextOptimize]_vars

\* the lexer tokenizing one input
InitLex == LexInit /\ ParseIdle /\ OptIdle /\ RuleIdle /\ CacheIdle /\ ProcIdle /\ AnIdle /\ RegInit
NextLex == NextToken /\ LexFrame
SpecLex == InitLex /\ [][NextLex]_vars

\* Tokenize runs to its end: its loop is the only thing running
SpecLexFair == SpecLex /\ WF_vars(NextLex)

\* merge-run applied, then PERF004 run on the result
InitFix == FixInit /\ RestIdle
NextFix ==
    \/ MergeRunTransform /\ OptFrame
    \/ MergeRun /\ OptFrame
    \/ PERF004Recheck /\ RuleFrame
SpecFix == InitFix /\ [][NextFix]_vars

\* Parse on the lines of a stage: Tokenize, then the loop of parseStage
InitParse == ParseInit /\ OptIdle /\ RuleIdle /\ CacheIdle /\ ProcIdle /\ AnIdle /\ RegInit
NextParse ==
    \/ NextToken /\ LexFrame
    \/ ParseStageStep /\ ParseFrame
SpecParse == InitParse /\ [][NextParse]_vars

\* one call of PERF004's Check
InitPerf == PerfInit /\ RestIdle
NextPerf == PERF004Check /\ RuleFrame
SpecPerf == InitPerf /\ [][NextPerf]_vars

(***************************************************************************)
(* Claims about the cache                                                  *)
(***************************************************************************)

\* C2: whenever a Get reports a hit, the entry it returns has the hash of the
\* content the Get was called with and was last accessed no longer than maxAge
\* before the call: the entry a Get refreshes (lines 103-106) was last accessed at
\* most maxAge before the Get was called, and the entry it then returns (line 108)
\* carries hashContent(content).
C2_HitHasCallersHash ==
    [][\A p \in Procs :
          /\ (cpc[p] = "touch" /\ cpc'[p] = "ret")
                => cl[p].t0 - ent[cl[p].elem].last <= MaxAge
          /\ (cpc[p] = "ret" /\ cpc'[p] = "idle")
                => ent[cl[p].elem].hash = hashContent(cl[p].content)]_vars

\* C7: the cache is bounded: in every state, Size is at most maxEntries.
C7_SizeBounded == Size <= maxEntries

\* the keys cached before a Put of a new filename, the new one included, that are
\* not cached after it
Evicted == {k \in Keys : (cache[k] # Nil \/ k = ent'[nextElem].key) /\ cache'[k] = Nil}

\* when the entry of key k was last used, before the Put and after it
LastUseBefore(k) == IF cache[k] # Nil THEN ent[cache[k]].last ELSE now
LastUseAfter(k) == ent'[cache'[k]].last

\* C8: a Put of a new filename that takes the cache over capacity evicts the least
\* recently used entry: no entry evicted by the Put was used (hit or stored) at a
\* later time than an entry the Put leaves in the cache.
C8_EvictsLeastRecentlyUsed ==
    [][nextElem' = nextElem + 1
          => \A k \in Evicted : \A k2 \in Keys :
                cache'[k2] # Nil => LastUseBefore(k) <= LastUseAfter(k2)]_vars

(***************************************************************************)
(* Claims about Process                                                    *)
(***************************************************************************)

Returned == ppc = "returned"

\* the FileResult of file i when fn was called for it, and when it was not
Processed(i) ==
    [Filename |-> files[i], Result |-> fnOut[i].Result, Error |-> fnOut[i].Error]
NotProcessed(i) ==
    [Filename |-> files[i], Result |-> <<"nil">>, Error |-> CtxErr]

\* C3: once ctx is cancelled fn is started for no further file; the files whose fn
\* call was in progress at the cancellation keep the result of that call; and when
\* Process has returned every file for which fn was not started has ctx's
\* cancellation error as its result's error.
C3_Cancellation ==
    /\ [][cancelled => started' = started]_vars
    /\ [](Returned =>
            \A i \in 1..Len(files) :
               /\ i \in atCancel => results[i] = Processed(i)
               /\ i \notin started => results[i].Error = CtxErr)

\* C3 witness: Process has returned after a cancellation that found one fn call in
\* progress, which completed with its own result, and left a file unstarted.
C3_Witness ==
    /\ Returned /\ cancelled
    /\ \E i \in atCancel : results[i].Error = <<"nil">> /\ results[i].Result[1] = "ok"
    /\ \E j \in 1..Len(files) : j \notin started /\ results[j].Error = CtxErr

\* C4: for a non-empty input, Process returns a slice as long as the input whose
\* i-th element carries the i-th filename and the outcome of processing that file:
\* what fn returned for it, or the cancellation error if fn was not called.
C4_ResultsInInputOrder ==
    (Returned /\ Len(files) > 0)
        => /\ Len(results) = Len(files)
           /\ \A i \in 1..Len(files) :
                 results[i] = IF i \in started THEN Processed(i) ELSE NotProcessed(i)

\* C4 witness: two workers, files with different names, the results sent in an
\* order that is not the input order, and every file processed.
C4_Witness ==
    /\ Returned /\ workers = 2
    /\ started = 1..Len(files)
    /\ \E i, j \in 1..Len(sendOrder) : i < j /\ sendOrder[i] > sendOrder[j]
    /\ \E i, j \in 1..Len(files) : files[i] # files[j]

\* the number of calls of fn in progress
InProgress == Cardinality({w \in Workers : wpc[w] = "run"})

\* C25: with a processor configured for n workers, at no moment are more than n calls
\* of the processing function in progress, for any number of input files.
C25_AtMostNInProgress == InProgress <= workers

\* as many calls in progress as there are workers, with more files than workers
C25_Witness ==
    /\ workers = 2 /\ Len(files) = 3
    /\ InProgress = 2

\* a worker is about to send a result: the buffer of the results channel has room
SendDoesNotBlock ==
    \A w \in Workers : wpc[w] \in {"select", "run"} => Len(resultsChan) < Len(files)

\* C27: Process always returns: for any input list, worker count and cancellation
\* timing, provided every call of the processing function returns, every worker
\* exits, the results channel is closed and Process returns, and no worker is left
\* blocked on a channel send.
C27_ProcessReturns ==
    /\ <>[](ppc = "returned")
    /\ [](ppc = "returned" /\ Len(files) > 0
            => resultsClosed /\ \A w \in Workers : wpc[w] \in {"off", "exited"})
    /\ []SendDoesNotBlock

\* Process has returned after a cancellation, its workers exited, all results
\* collected through the closed channel
C27_Witness ==
    /\ ppc = "returned" /\ cancelled /\ workers = 2 /\ Len(files) = 3
    /\ resultsClosed /\ resultsChan = <<>>
    /\ \A w \in Workers : wpc[w] = "exited"

(***************************************************************************)
(* Claims about the analyzer                                               *)
(***************************************************************************)

\* the elements of a sequence with the number of times each occurs
BagOfSeq(s) ==
    [x \in {s[i] : i \in 1..Len(s)} |-> Cardinality({i \in 1..Len(s) : s[i] = x})]

Analyzed == apc = "done"

\* C5: in parallel mode Analyze returns the diagnostics that sequential mode returns
\* for the same Dockerfile, rules and configuration, each as many times: none is
\* lost, duplicated or added.
C5_ParallelSameDiagnostics ==
    (Analyzed /\ parallelRules /\ Len(rulesToRun) > 1)
        => BagOfSeq(result) = BagOfSeq(analyzeSequential(rulesToRun))

\* C5 witness: a parallel run of three rules on two workers that called Check in
\* another order than the sequential one and returned five diagnostics.
C5_Witness ==
    /\ Analyzed /\ parallelRules
    /\ Len(rulesToRun) = 3
    /\ checked # rulesToRun
    /\ Len(result) = 5

\* C6: the final sort is stable: diagnostics of one rule at the same (line, column)
\* are in the result in the order in which the rule emitted them.
C6_SortStable ==
    Analyzed =>
        \A i, j \in 1..Len(result) :
            (/\ i < j
             /\ result[i].Rule = result[j].Rule
             /\ result[i].Line = result[j].Line
             /\ result[i].Column = result[j].Column)
                => result[i].Message < result[j].Message

\* C9 as claimed: with a non-empty enabled set the rules run are exactly the
\* configured rules whose id is enabled; with an empty one, exactly those whose id
\* is not disabled.
C9_SelectionAsClaimed ==
    Analyzed =>
        BagOfSeq(checked) =
            BagOfSeq(SelectSeq(aRules, LAMBDA r : IF enabled # {} THEN r \in enabled
                                                  ELSE r \notin disabled))

\* C9 as amended: the rules run are exactly the configured rules whose id is not
\* disabled and, when the enabled set is non-empty, is enabled.
C9_SelectionDisabledWins ==
    Analyzed =>
        BagOfSeq(checked) =
            BagOfSeq(SelectSeq(aRules, LAMBDA r : /\ r \notin disabled
                                                  /\ enabled # {} => r \in enabled))

\* C9 witness: Analyze has run a rule and left out a configured rule that is both
\* enabled and disabled.
C9_Witness ==
    /\ Analyzed
    /\ checked # <<>>
    /\ \E i \in 1..Len(aRules) : aRules[i] \in enabled \cap disabled

\* C24: the diagnostic list returned by Analyze is sorted by position: of two
\* adjacent diagnostics the earlier one's (line, column) is less than or equal to
\* the later one's, in sequential and in parallel mode.
C24_ResultSortedByPosition ==
    Analyzed =>
        \A i \in 1..(Len(result) - 1) :
            \/ result[i].Line < result[i + 1].Line
            \/ /\ result[i].Line = result[i + 1].Line
               /\ result[i].Column <= result[i + 1].Column

\* Analyze in parallel mode has returned diagnostics that the rules did not
\* deliver in the order of their positions
C24_Witness ==
    /\ Analyzed /\ parallelRules
    /\ Len(result) >= 3
    /\ result # diagnostics
    /\ \E i \in 1..(Len(diagnostics) - 1) : Less(diagnostics[i + 1], diagnostics[i])

(***************************************************************************)
(* Claims about the registries                                             *)
(***************************************************************************)

\* C10: after any sequence of registrations a rule registry holds at most one rule
\* per rule id, the keyed Registry and the rule list of a category package alike.
C10_OneRulePerId ==
    /\ \A r1, r2 \in RegistryRules : r1.id = r2.id => r1 = r2
    /\ \A i, j \in 1..Len(catRules) : catRules[i].id = catRules[j].id => i = j

(***************************************************************************)
(* Claims about merge-run                                                  *)
(***************************************************************************)
Merged == tpc = "done" /\ applied \in {"transforms.MergeRunTransform", "optimizer.MergeRun"}

\* the instructions of stage s that are the result of a merge: they span several lines
MergedRuns(s) ==
    {j \in 1..Len(dockerfile[s]) : dockerfile[s][j].start < dockerfile[s][j].end}

\* the commands of the original instructions on the lines first..last of stage s
OriginalCommands(s, first, last) ==
    [k \in 1..(last - first + 1) |-> original[s][first + k - 1].command]

\* C11: in every merge-run implementation, the RUN that results from merging k
\* consecutive RUNs has as its command the k original commands, in their order,
\* joined with " \<NL>    && ".
C11_MergedCommandJoined ==
    Merged =>
        \A s \in 1..Len(dockerfile) : \A j \in MergedRuns(s) :
            LET m == dockerfile[s][j]
            IN m.command = Join(OriginalCommands(s, m.start, m.end), TransformsSep)

\* what merge-run must not merge: no RUN, or a RUN with a heredoc, in exec form or
\* with --mount
IsBarrier(inst) ==
    inst.name # "RUN" \/ inst.heredoc \/ inst.isExec \/ inst.mount # <<>>

\* C12: merge-run never merges across a barrier: no merged RUN spans the line of a
\* barrier instruction, and every barrier instruction is in the result as it was,
\* between what came before it and what came after it.
C12_NoMergeAcrossBarrier ==
    Merged =>
        \A s \in 1..Len(dockerfile) : \A i \in 1..Len(original[s]) :
            IsBarrier(original[s][i]) =>
                /\ \A j \in MergedRuns(s) :
                       ~(dockerfile[s][j].start <= i /\ i <= dockerfile[s][j].end)
                /\ \E j \in 1..Len(dockerfile[s]) :
                       /\ dockerfile[s][j] = original[s][i]
                       /\ \A h \in 1..Len(dockerfile[s]) :
                              h < j <=> dockerfile[s][h].end < i

\* a merge happened before a barrier that has a mergeable RUN after it
C12_Witness ==
    /\ Merged
    /\ changed
    /\ \E s \in 1..Len(dockerfile) :
          /\ Len(original[s]) = 3 /\ Len(dockerfile[s]) = 3
          /\ IsBarrier(original[s][2])
          /\ ~IsBarrier(original[s][1]) /\ ~IsBarrier(original[s][3])

\* C29: merge-run resolves every finding it is offered for: after merge-run has been
\* applied to a Dockerfile, analysing the result with the same threshold yields no
\* PERF004 diagnostic.
C29_NoFindingAfterMerge ==
    tpc = "checked" => perfDiags = <<>>

\* C30: merge-run loses nothing but instruction boundaries: every --network or
\* --security flag carried by a RUN that is merged is still carried by the merged RUN.
C30_MergedRunKeepsFlags ==
    Merged =>
        \A s \in 1..Len(dockerfile) : \A j \in MergedRuns(s) :
            \A i \in 1..Len(original[s]) :
                (dockerfile[s][j].start <= original[s][i].start
                    /\ original[s][i].end <= dockerfile[s][j].end)
                => /\ original[s][i].network # <<>>
                        => dockerfile[s][j].network = original[s][i].network
                   /\ original[s][i].security # <<>>
                        => dockerfile[s][j].security = original[s][i].security

(***************************************************************************)
(* Claims about PERF004                                                    *)
(***************************************************************************)
\* the maximal sequences of consecutive RUNs of stage s, as <<first, last>> indices
MaximalRuns(s) ==
    LET st == original[s]
        IsRun(i) == st[i].name = "RUN"
    IN {r \in (1..Len(st)) \X (1..Len(st)) :
           /\ r[1] <= r[2]
           /\ \A i \in r[1]..r[2] : IsRun(i)
           /\ (r[1] = 1 \/ ~IsRun(r[1] - 1))
           /\ (r[2] = Len(st) \/ ~IsRun(r[2] + 1))}

\* the ranges, first line to last line, of the maximal sequences of at least n RUNs
RangesOfAtLeast(n) ==
    UNION {{<<original[s][m[1]].start, original[s][m[2]].end>> :
               m \in {q \in MaximalRuns(s) : q[2] - q[1] + 1 >= n}}
              : s \in 1..Len(original)}

Perf004Done == tpc = "done" /\ applied = "PERF004"
Limit == IF threshold = NoConfig THEN 2 ELSE threshold
DiagRanges == {perfDiags[k].range : k \in 1..Len(perfDiags)}

Reordered == tpc = "done" /\ applied = "transforms.ReorderCopyTransform"

\* a broad copy as reorder-copy understands it (a COPY without --from, or an ADD,
\* with a broad source), and a dependency-install RUN
IsBroadCopy(inst) ==
    \/ inst.name = "COPY" /\ isBroadCopyInstruction(inst)
    \/ inst.name = "ADD" /\ isBroadAddInstruction(inst)
IsInstallRun(inst) == inst.name = "RUN" /\ isDependencyInstallCommand(inst.command)

\* the pairs <<b, d>> of stage st: a broad copy at b before an install RUN at d
CopyBeforeInstall(st) ==
    {q \in (1..Len(st)) \X (1..Len(st)) :
        q[1] < q[2] /\ IsBroadCopy(st[q[1]]) /\ IsInstallRun(st[q[2]])}

\* st with the instruction at b removed and re-inserted directly after the one at d
MovedAfter(st, b, d) ==
    [i \in 1..Len(st) |->
        IF i < b \/ i > d THEN st[i] ELSE IF i < d THEN st[i + 1] ELSE st[b]]

FirstIndex(st, P(_)) ==
    IF \E i \in 1..Len(st) : P(st[i])
    THEN CHOOSE i \in 1..Len(st) : P(st[i]) /\ \A j \in 1..(i - 1) : ~P(st[j])
    ELSE 0

\* C28: analyzeStage takes as the reorder target the first dependency-install RUN of
\* the stage: later dependency-install RUNs do not change the target, so the broad
\* copy is moved directly after the first install, and only if it comes before it.
C28_TargetIsFirstInstall ==
    Reordered /\ ~dryRun =>
        \A s \in 1..Len(original) :
            LET b == FirstIndex(original[s], IsBroadCopy)
                d == FirstIndex(original[s], IsInstallRun)
            IN /\ analyzeStage(original[s]).depInstallIdx \in {0, d}
               /\ dockerfile[s] = IF 0 < b /\ b < d THEN MovedAfter(original[s], b, d)
                                  ELSE original[s]

(***************************************************************************)
(* Claims about workdir-absolute                                           *)
(***************************************************************************)
WorkdirDone == tpc = "done" /\ applied = "transforms.WorkdirAbsoluteTransform"

HasVariable(p) == \E i \in 1..Len(p) : p[i] \in {"$X", "${X}"}

\* the WORKDIRs of stage s whose path holds no variable
PlainWorkdirs(s) ==
    {i \in 1..Len(original[s]) :
        original[s][i].name = "WORKDIR" /\ ~HasVariable(original[s][i].path)}

\* the working directory in effect before instruction i of stage s: "/", or the path
\* of the last WORKDIR before i that is absolute after the transform
PrevAbsolute(s, i) ==
    LET before == {j \in 1..(i - 1) :
                      /\ dockerfile[s][j].name = "WORKDIR"
                      /\ HasSlashPrefix(dockerfile[s][j].path)}
    IN IF before = {} THEN <<"/">>
       ELSE LET j == CHOOSE k \in before : \A h \in before : h <= k
                p == dockerfile[s][j].path
            IN IF HasVariable(p) THEN p ELSE Clean(p)

\* C15 as stated: after workdir-absolute, every WORKDIR path without a variable is
\* absolute and equals path.Clean(prev_absolute + "/" + original).
C15_EveryPathIsCleanJoin ==
    WorkdirDone =>
        \A s \in 1..Len(original) : \A i \in PlainWorkdirs(s) :
            /\ HasSlashPrefix(dockerfile[s][i].path)
            /\ dockerfile[s][i].path =
                  Clean(PrevAbsolute(s, i) \o <<"/">> \o original[s][i].path)

\* C15 as the code has it: after workdir-absolute, every WORKDIR path without a
\* variable is absolute; one that was relative equals
\* path.Clean(prev_absolute + "/" + original), one that was absolute is as written.
C15_RelativePathIsCleanJoin ==
    WorkdirDone =>
        \A s \in 1..Len(original) : \A i \in PlainWorkdirs(s) :
            /\ HasSlashPrefix(dockerfile[s][i].path)
            /\ dockerfile[s][i].path =
                  IF HasSlashPrefix(original[s][i].path) THEN original[s][i].path
                  ELSE Clean(PrevAbsolute(s, i) \o <<"/">> \o original[s][i].path)

\* a chain: an absolute WORKDIR, then two relative ones that were resolved against it
C15_Witness ==
    /\ WorkdirDone /\ changed
    /\ \E s \in 1..Len(original) :
          /\ Len(original[s]) = 3
          /\ original[s][1].path = <<"/", "a", "/">>
          /\ original[s][2].path = <<".", "/", "b">>
          /\ original[s][3].path = <<"a">>
          /\ dockerfile[s][2].path = <<"/", "a", "/", "b">>
          /\ dockerfile[s][3].path = <<"/", "a", "/", "b", "/", "a">>

(***************************************************************************)
(* Claims about remove-sudo                                                *)
(***************************************************************************)
SudoDone == tpc = "done" /\ applied = "transforms.RemoveSudoTransform"

\* the RUNs in shell form, as <<stage, index>>
ShellRuns ==
    {q \in (1..Len(original)) \X (1..MaxSudoInstr) :
        /\ q[2] <= Len(original[q[1]])
        /\ original[q[1]][q[2]].name = "RUN"
        /\ ~original[q[1]][q[2]].isExec /\ ~original[q[1]][q[2]].heredoc}

\* a sudo invocation at index k of command c that carries only safe flags: sudo,
\* flags of -E -n -H -P -S, then no further flag
SafeSudoAt(c, k) ==
    /\ MatchSudo(c, k) > 0
    /\ LET j == MatchFlags(c, MatchSudo(c, k))
       IN ~(j <= Len(c) /\ c[j] = "-")

\* a sudo -u invocation at index k of command c, and its text up to the next "&"
UserSudoAt(c, k) == MatchSudo(c, k) > 0 /\ MatchUserFlag(c, MatchSudo(c, k))
InvocationText(c, k) ==
    LET stops == {j \in k..Len(c) : c[j] = "&"}
    IN SubSeq(c, k, IF stops = {} THEN Len(c)
                    ELSE (CHOOSE j \in stops : \A h \in stops : j <= h) - 1)
UserInvocations(c) ==
    LET at == SelectSeq([k \in 1..Len(c) |-> k], LAMBDA k : UserSudoAt(c, k))
    IN [n \in 1..Len(at) |-> InvocationText(c, at[n])]

\* C16: in shell-form RUN commands, remove-sudo removes every sudo invocation that
\* carries only safe flags and leaves every sudo -u invocation exactly as written.
C16_SafeSudoRemovedUserSudoKept ==
    SudoDone =>
        \A q \in ShellRuns :
            LET o == original[q[1]][q[2]].command
                r == dockerfile[q[1]][q[2]].command
            IN /\ \A k \in 1..Len(r) : ~SafeSudoAt(r, k)
               /\ UserInvocations(r) = UserInvocations(o)

\* a command that holds no sudo invocation
NoSudo(c) == \A k \in 1..Len(c) : MatchSudo(c, k) = 0

\* C17: remove-sudo leaves every RUN command without a sudo invocation exactly
\* unchanged, and reports no change when no command of the Dockerfile holds sudo.
C17_NoSudoNoChange ==
    SudoDone =>
        /\ \A q \in ShellRuns :
              NoSudo(original[q[1]][q[2]].command) =>
                  dockerfile[q[1]][q[2]].command = original[q[1]][q[2]].command
        /\ (\A s \in 1..Len(original) : \A i \in 1..Len(original[s]) :
               NoSudo(original[s][i].command) /\ NoSudo(original[s][i].content))
              => ~changed

(***************************************************************************)
(* Claims about Optimize                                                   *)
(***************************************************************************)
Optimized == tpc = "done" /\ applied = "Optimize"

\* C18: in dry-run mode no transform mutates the AST: after Optimize with dry-run
\* enabled, or Transform of a ReorderCopyTransform with DryRun set, the Dockerfile
\* equals what it was before the call, even when a would-change is reported.
C18_DryRunLeavesAST ==
    (tpc = "done" /\ dryRun) => dockerfile = original

\* a would-change is reported in dry-run: by Optimize for a transform that would
\* have changed the Dockerfile, or by reorder-copy's Transform returning true
C18_Witness ==
    /\ tpc = "done" /\ dryRun /\ dockerfile = original
    /\ \/ /\ applied = "Optimize"
          /\ \E i \in 1..Len(changesMade) : ~changesMade[i].applied
          /\ \E t \in TransformNames : Transform(t, original).changed
       \/ /\ applied = "transforms.ReorderCopyTransform"
          /\ changed

\* the names that Result.ChangesMade reports
Reported == {changesMade[i].transform : i \in 1..Len(changesMade)}

\* C19: Optimize invokes a transform only if one of the rule ids it declares occurs
\* among the rule ids of the diagnostics given; a transform none of whose rule ids
\* was observed is neither invoked nor reported.
C19_OnlyTriggeredTransforms ==
    Optimized =>
        \A t \in TransformNames :
            Rules(t) \cap diags = {} => t \notin invoked /\ Name(t) \notin Reported

\* one transform of the Optimizer was invoked and reported, the other, whose rule has
\* no diagnostic, was not
C19_Witness ==
    /\ Optimized
    /\ Len(transforms) = 2 /\ transforms[1] # transforms[2]
    /\ \E t \in TransformNames :
          /\ t \in invoked /\ Name(t) \in Reported
          /\ \E u \in TransformNames : Rules(u) \cap diags = {} /\ u \notin invoked


(***************************************************************************)
(* Claims about the lexer                                                  *)
(***************************************************************************)
\* token i is the first token of its logical line: nothing but line ends (and
\* consumed line continuations, which leave no token) comes before it on the line
FirstOfLine(i) == i = 1 \/ tokens[i - 1].type = "NEWLINE"

\* C20: the lexer emits an instruction-keyword token only for an identifier that is
\* the first token of a logical line; a keyword-spelled identifier anywhere else,
\* whatever kind of token precedes it, is a Word.
C20_KeywordOnlyFirstOfLine ==
    \A i \in 1..Len(tokens) :
        tokens[i].type \in instructionKeywords => FirstOfLine(i)


\* Tokenize has returned: the last token appended is EOF
Tokenized == tokens # <<>> /\ tokens[Len(tokens)].type = "EOF"

NotBefore(a, b) == a.line > b.line \/ (a.line = b.line /\ a.column >= b.column)

\* C23: in every token stream of the lexer start positions are non-decreasing from one
\* token to the next, and each token's end position is not before its own start.
C23_PositionsNonDecreasing ==
    /\ \A i \in 1..(Len(tokens) - 1) :
          /\ NotBefore(tokens[i + 1].pos, tokens[i].pos)
          /\ tokens[i + 1].pos.offset >= tokens[i].pos.offset
    /\ \A i \in 1..Len(tokens) :
          /\ NotBefore(tokens[i].endPos, tokens[i].pos)
          /\ tokens[i].endPos.offset >= tokens[i].pos.offset

\* a stream whose tokens lie on two lines, the second line starting with a token
\* in a column smaller than that of the token before the line end
C23_Witness ==
    /\ Tokenized
    /\ \E i \in 1..(Len(tokens) - 1) :
          /\ tokens[i + 1].pos.line > tokens[i].pos.line
          /\ tokens[i + 1].pos.column < tokens[i].pos.column


\* the elements of the LRU list: those reached from the sentinel through next
RECURSIVE Chain(_, _)
Chain(e, seen) ==
    IF e = Root \/ e = Nil \/ e \in seen THEN seen
    ELSE Chain(lru.next[e], seen \cup {e})
ListElems == Chain(lru.next[Root], {})

\* C26: under any interleaving of Get, Put, Invalidate and Clear the filename map
\* and the LRU list describe the same entries: every list element is the map's value
\* for its own key, every map value is an element of the list, and the list length
\* equals the map size.
C26_MapAndListAgree ==
    /\ \A e \in ListElems : cache[ent[e].key] = e
    /\ \A k \in Keys : cache[k] # Nil => cache[k] \in ListElems
    /\ ListLen(lru) = Size


(***************************************************************************)
(* Claims about the parser                                                 *)
(***************************************************************************)
\* C21: for every input, no Onbuild instruction in the parsed AST has another
\* Onbuild instruction as its inner instruction.
C21_OnbuildNeverNestsOnbuild ==
    \A i \in 1..Len(instructions) :
        instructions[i].name = "ONBUILD" => instructions[i].instruction.name # "ONBUILD"
====
